---- MODULE Spec2Model ----
(***************************************************************************)
(* A model of the phase4 real-time audio engine: the actor runtime         *)
(* (internal/p4/runtime/stage), the double buffer (pkg/buffer), the FFT    *)
(* stage's outputs, the message pools and the hot path                     *)
(* (Engine.processInputStream) with the processor, router and endpoint     *)
(* actors behind it.                                                       *)
(*                                                                         *)
(* Every goroutine is a thread with a program counter th[t].pc.  A step of *)
(* the model is one critical section, one channel operation or one write   *)
(* to unsynchronised shared memory of the code.  An unrecovered Go panic   *)
(* ends the program: once `panicked` holds no action is enabled.           *)
(***************************************************************************)
EXTENDS Integers, Sequences, FiniteSets, TLC

\* ---------------------------------------------------------------- bounds
\* Messages the test clients submit to actor "a" in SpecActor.
MaxMsgs == 3
\* Swaps the writer of SpecBuffer performs.
MaxSwaps == 3
\* Elements of each slot of the double buffer.
SlotLen == 2
\* Audio callbacks the driver of SpecPipeline feeds.
MaxFrames == 2

\* The number of calls of BPMDetector.ProcessFlux.
MaxFlux == 3

\* ------------------------------------------------------ program constants
\* actor.go:11, the capacity NewBaseActor substitutes for a request <= 0.
DefaultCapacity == 100

\* The actor under test in SpecActor is a plain *BaseActor registered as "a";
\* "processor", "router" and "ws" are the components Engine.initializeSystem
\* registers (structs that embed BaseActor).
ActorIds == {"a", "processor", "router", "ws"}
Clients == {"c1", "c2"}

\* The thread that drives the engine in SpecPipeline: it invokes the audio
\* callback and the control operations one after the other, as Engine.Close
\* stops the audio stream before it stops the actors (engine.go, Close).
Driver == "drv"

\* The goroutine that calls LifecycleManager.Shutdown (the signal handler of
\* the application) in SpecShutdown.
Main == "main"
\* The goroutine of LifecycleManager.run (lifecycle.go:49-59), which calls
\* Engine.Run.
Runner == "run"
Threads == Clients \cup ActorIds \cup {Driver, Main, Runner}

\* Capacities requested for actor "a" (NewBaseActor's capacity argument).
RequestedCaps == {0, 1, 2}

VARIABLES
    actors,        \* System.actors: the registered ids
    reqCap,        \* the capacity each actor was constructed with
    mailbox,       \* BaseActor.mailbox: the buffered channel's contents
    mbClosed,      \* whether close(a.mailbox) has run
    started,       \* BaseActor.started
    stopping,      \* BaseActor.stopping
    wg,            \* BaseActor.wg: the WaitGroup counter
    sysCancelled,  \* System.ctx is done (System.cancel was called)
    panicked,      \* an unrecovered panic has ended the program
    accepted,      \* history: per actor, the messages whose send succeeded
    delivered,     \* history: per actor, the messages passed to the processor
    nextId,        \* next fresh message id of the test clients
    th,            \* per thread: pc, the call in progress and its locals
    db,            \* DoubleBuffer: buffers, active and the RWMutex mu
    dbt,           \* per thread using the double buffer: pc and locals
    published,     \* history: the contents of the active slot, per swap
    frameCount,    \* Engine.frameCount
    fftProc,       \* FFTProcessor: inputBuffer, prevMagnitudes, spectralFlux
    rawHeap,       \* the RawAudioMessage records ever allocated, by address
    rawPool,       \* stage.RawMessagePool: the addresses it holds
    fftHeap,       \* the FFTData records ever allocated, by address
    fftPool,       \* pipeline.FftDataPool: the addresses it holds
    fftOut,        \* history: per callback, the vectors Process produced
    wsSent,        \* history: the payloads the "ws" endpoint handed to its sender
    rawAcquired,   \* history: the number of GetRawMessage calls
    rawReleased,   \* history: per thread, the number of PutRawMessage calls
    stopReturned,  \* history: the actors on which a call of Stop has returned
    engine,        \* LifecycleManager and Engine: the state Shutdown and
                   \* Close work on
    registry,      \* System.actors: the actor registered under each id, and
                   \* System.mu
    detector,      \* BPMDetector: mu, currentBPM, confidence, and the
                   \* threads that call ProcessFlux and GetBPM
    pow2           \* a call of one of the NextPowerOfTwo functions: the
                   \* function, its argument and its result

vars == <<actors, reqCap, mailbox, mbClosed, started, stopping, wg,
          sysCancelled, panicked, accepted, delivered, nextId, th,
          db, dbt, published, frameCount, fftProc, rawHeap, rawPool,
          fftHeap, fftPool, fftOut, wsSent, rawAcquired, rawReleased,
          stopReturned, engine, registry, detector, pow2>>

\* The analysis stage and the message pools.
hotPath == <<frameCount, fftProc, rawHeap, rawPool, fftHeap, fftPool, fftOut,
             wsSent, rawAcquired, rawReleased>>

\* The state outside the actor runtime.
nonActor == <<db, dbt, published, hotPath, engine, detector, pow2>>

\* The state of the actor runtime and of its threads.
actorSide == <<actors, registry, reqCap, mailbox, mbClosed, started, stopping, wg,
               sysCancelled, panicked, accepted, delivered, nextId, th,
               stopReturned>>

actorVars == <<mailbox, mbClosed, started, stopping, wg>>

NoMsg == [kind |-> "none", id |-> 0, from |-> "none"]

\* A thread at rest: a client between calls ("idle"), a processing task that
\* was not spawned yet ("none").
Thread0(p) ==
    [pc |-> p, op |-> "none", a |-> "none", m |-> NoMsg, res |-> "none",
     todo |-> {}, snap |-> 0, hold |-> NoMsg, out |-> 0, i |-> 0,
     copy |-> {}, errs |-> {}, failed |-> {}]

\* ----------------------------------------------------------------- System

\* NewSystem (system.go:11-19) and the Register calls made before the
\* specification starts: obj is s.actors, "none" for an id that is not a key
\* of the map and else the actor object stored under it, named after who
\* constructed it ("init" for the set-up); writer is the thread that holds
\* s.mu for writing; closes, a history, counts the calls of System.Close.
Registry(ids) ==
    [obj |-> [id \in ActorIds |-> IF id \in ids THEN "init" ELSE "none"],
     writer |-> "none", closes |-> 0]

\* s.mu, a sync.RWMutex: Lock and RLock wait while a writer holds it.  The
\* read-locked sections of System are single steps here, so no reader holds
\* the lock between steps.
SysCanLock_Free == TRUE
SysCanLock == registry.writer = "none"

\* ------------------------------------------------------------ BPMDetector

\* The goroutines that call GetBPM.
BpmReaders == {"g1", "g2"}

\* bestCandidate.bpm and confidenceScore * bestCandidate.score of a call of
\* calculateBPM that reaches part_018:330: the tempo in hundredths of a beat
\* per minute, and the confidence in hundredths.
Candidates == [bpm : {12000, 12800}, confidence : {50, 90}]

\* A call of ProcessFlux that leaves the result alone: calculateBPM is not
\* reached (part_018:124) or returns early (part_018:133, 146), or no
\* candidate was scored (part_018:316).
NoCandidate == [bpm |-> 0, confidence |-> 0]

\* NewBPMDetector (part_018:10-34): currentBPM and confidence are zero and
\* bd.mu is free (writer: held for writing; readers: the goroutines that
\* hold it for reading).  pc and best are the position and the candidate of
\* the goroutine inside ProcessFlux, g the position and the operands read by
\* each goroutine inside GetBPM and ret the pair its last call returned;
\* calls counts the calls of ProcessFlux and pairs, a history, holds the
\* pair each returned call of ProcessFlux left in the two fields.
\* onsetTimes is bd.onsetTimes[:bd.onsetTimesLen] and scored is
\* bd.scoredCandidates; appended, a history, is
\* bd.scoredCandidates as the last run of calculateBPM had it at
\* part_018:291, before the duplicates were removed.
NewBPMDetector ==
    [writer |-> FALSE, readers |-> {}, currentBPM |-> 0, confidence |-> 0,
     pc |-> "idle", best |-> NoCandidate, calls |-> 0, pairs |-> {},
     onsetTimes |-> <<>>, scored |-> <<>>, appended |-> <<>>,
     g |-> [r \in BpmReaders |->
              [pc |-> "idle", bpm |-> 0, confidence |-> 0, ret |-> <<>>]]]

\* bd.mu, a sync.RWMutex: Lock waits for the writer and for every reader,
\* RLock waits for the writer.
BpmCanLock == ~detector.writer /\ detector.readers = {}
BpmCanRLock_Free == TRUE
BpmCanRLock == ~detector.writer

BpmStep == UNCHANGED <<actorSide, db, dbt, published, hotPath, engine, pow2>>

\* ProcessFlux (part_018:36-52): the flux is summed outside the lock, then
\* bd.mu.Lock(); what follows up to part_018:129 touches the onset
\* buffers alone and decides whether calculateBPM stores a candidate.
ProcessFluxLock ==
    /\ detector.pc = "idle"
    /\ detector.calls < MaxFlux
    /\ BpmCanLock
    /\ \E best \in Candidates \cup {NoCandidate} :
         detector' = [detector EXCEPT
                        !.writer = TRUE,
                        !.calls = @ + 1,
                        !.best = best,
                        !.pc = IF best = NoCandidate THEN "unlock"
                                                     ELSE "currentBPM"]
    /\ BpmStep

\* part_018:330: bd.currentBPM = bestCandidate.bpm.
SetCurrentBPM ==
    /\ detector.pc = "currentBPM"
    /\ detector' = [detector EXCEPT !.currentBPM = detector.best.bpm,
                                    !.pc = "confidence"]
    /\ BpmStep

\* part_018:331: bd.confidence = confidenceScore * bestCandidate.score.
SetConfidence ==
    /\ detector.pc = "confidence"
    /\ detector' = [detector EXCEPT !.confidence = detector.best.confidence,
                                    !.pc = "unlock"]
    /\ BpmStep

\* part_018:52: the deferred bd.mu.Unlock() as ProcessFlux returns.
ProcessFluxUnlock ==
    /\ detector.pc = "unlock"
    /\ detector' = [detector EXCEPT
                      !.writer = FALSE,
                      !.pc = "idle",
                      !.pairs = @ \cup {<<detector.currentBPM,
                                          detector.confidence>>}]
    /\ BpmStep

\* GetBPM (part_018:339-340): bd.mu.RLock().
GetBPMRLock(r) ==
    /\ detector.g[r].pc = "idle"
    /\ BpmCanRLock
    /\ detector' = [detector EXCEPT !.readers = @ \cup {r},
                                    !.g[r].pc = "currentBPM"]
    /\ BpmStep

\* part_018:342: the operands of the return statement are read left to
\* right, bd.currentBPM first.
GetBPMCurrentBPM(r) ==
    /\ detector.g[r].pc = "currentBPM"
    /\ detector' = [detector EXCEPT !.g[r].bpm = detector.currentBPM,
                                    !.g[r].pc = "confidence"]
    /\ BpmStep

\* part_018:342: bd.confidence.
GetBPMConfidence(r) ==
    /\ detector.g[r].pc = "confidence"
    /\ detector' = [detector EXCEPT !.g[r].confidence = detector.confidence,
                                    !.g[r].pc = "return"]
    /\ BpmStep

\* part_018:341-342: the deferred bd.mu.RUnlock(), and GetBPM returns the
\* two operands.
GetBPMReturn(r) ==
    /\ detector.g[r].pc = "return"
    /\ detector' = [detector EXCEPT
                      !.readers = @ \ {r},
                      !.g[r].pc = "idle",
                      !.g[r].ret = <<detector.g[r].bpm,
                                     detector.g[r].confidence>>]
    /\ BpmStep

\* ----------------------------------------------------------------- bitint

\* An integer of w bits is the set of the positions of its one bits, bit 0
\* the lowest and bit w - 1 the sign of a signed type (two's complement);
\* the numbers of 64 bits do not fit the integers of the checker.
AllOnes(w) == 0..(w - 1)

Max(x) == CHOOSE m \in x : \A n \in x : n <= m
Min(x) == CHOOSE m \in x : \A n \in x : m <= n

\* size <= 0 for a signed size of w bits.
LeqZero(size, w) == size = {} \/ (w - 1) \in size

\* x - 1 in w bits: the lowest one bit is cleared and the bits below it are
\* set; 0 - 1 wraps to all ones.
Dec(x, w) ==
    IF x = {} THEN AllOnes(w)
    ELSE (x \ {Min(x)}) \cup {b \in AllOnes(w) : b < Min(x)}

\* The conversion of a signed integer of `from` bits to an unsigned type of
\* `to` bits: the high bits are cut off, or the sign is extended.
Convert(x, from, to) ==
    IF to <= from THEN x \cap AllOnes(to)
    ELSE IF (from - 1) \in x THEN x \cup (from..(to - 1))
    ELSE x

\* x >> n for an unsigned x.
Shr(x, n) == {b - n : b \in {c \in x : c >= n}}

\* bits.Len32 and bits.Len64: the number of bits needed to represent x, 0
\* for x = 0.
BitsLen(x) == IF x = {} THEN 0 ELSE Max(x) + 1

\* 1 << n where the shift has a type of w bits: in int(1 << n), int32(1 << n)
\* and int64(1 << n) with n not a constant, the constant 1 takes the type of
\* the conversion, and a count of w or more yields 0.
Shl1(n, w) == IF n < w THEN {n} ELSE {}

\* The widths of int and uint on the platforms Go builds for.
IntSizes == {32, 64}

\* NextPowerOfTwo (pow2.go:31-41) where int has w bits.  ^uint(0)>>63 is 1
\* where uint has 64 bits and 0 where it has 32.
NextPowerOfTwo(size, w) ==
    IF LeqZero(size, w) THEN {0}
    ELSE IF Shr(AllOnes(w), 63) = {}
    THEN Shl1(BitsLen(Convert(Dec(size, w), w, 64)), w)
    ELSE Shl1(BitsLen(Convert(Dec(size, w), w, 32)), w)

\* NextPowerOfTwo32 (pow2.go:44-49).
NextPowerOfTwo32(size) ==
    IF LeqZero(size, 32) THEN {0}
    ELSE Shl1(BitsLen(Convert(Dec(size, 32), 32, 32)), 32)

\* NextPowerOfTwo64 (pow2.go:52-57).
NextPowerOfTwo64(size) ==
    IF LeqZero(size, 64) THEN {0}
    ELSE Shl1(BitsLen(Convert(Dec(size, 64), 64, 64)), 64)

\* The arguments of w bits the functions are called with: 0, the powers of
\* two 2^e (the minimum of the type among them), 2^e + 1, 2^e - 1 (the
\* maximum of the type among them) and -1, -2^e.
Sizes(w) ==
    {{}} \cup {{e} : e \in AllOnes(w)}
         \cup {{0, e} : e \in AllOnes(w)}
         \cup {{b \in AllOnes(w) : b < e} : e \in AllOnes(w)}
         \cup {{b \in AllOnes(w) : b >= e} : e \in AllOnes(w)}

\* No call was made: pow2 outside the specification of this package.  out is
\* the result of the call once done is true, again the result of the call
\* then made with out as its argument, once redone is true.
NoCall ==
    [fn |-> "none", w |-> 32, size |-> {}, out |-> {}, done |-> FALSE,
     again |-> {}, redone |-> FALSE]

\* The calls: the function, the width of its integer type, the argument.
Calls ==
    {[NoCall EXCEPT !.fn = "NextPowerOfTwo", !.w = w, !.size = n] :
        w \in {32}, n \in Sizes(32)}
    \cup {[NoCall EXCEPT !.fn = "NextPowerOfTwo", !.w = w, !.size = n] :
        w \in {64}, n \in Sizes(64)}
    \cup {[NoCall EXCEPT !.fn = "NextPowerOfTwo32", !.size = n] :
        n \in Sizes(32)}
    \cup {[NoCall EXCEPT !.fn = "NextPowerOfTwo64", !.w = 64, !.size = n] :
        n \in Sizes(64)}

Pow2Step ==
    UNCHANGED <<actorSide, db, dbt, published, hotPath, engine, detector>>

CallNextPowerOfTwo ==
    /\ pow2.fn = "NextPowerOfTwo" /\ ~pow2.done
    /\ pow2.w \in IntSizes
    /\ pow2' = [pow2 EXCEPT !.out = NextPowerOfTwo(pow2.size, pow2.w),
                            !.done = TRUE]
    /\ Pow2Step

CallNextPowerOfTwo32 ==
    /\ pow2.fn = "NextPowerOfTwo32" /\ ~pow2.done
    /\ pow2' = [pow2 EXCEPT !.out = NextPowerOfTwo32(pow2.size),
                            !.done = TRUE]
    /\ Pow2Step

CallNextPowerOfTwo64 ==
    /\ pow2.fn = "NextPowerOfTwo64" /\ ~pow2.done
    /\ pow2' = [pow2 EXCEPT !.out = NextPowerOfTwo64(pow2.size),
                            !.done = TRUE]
    /\ Pow2Step

\* The caller hands the result to the same function once more.
CallAgainNextPowerOfTwo ==
    /\ pow2.fn = "NextPowerOfTwo" /\ pow2.done /\ ~pow2.redone
    /\ pow2' = [pow2 EXCEPT !.again = NextPowerOfTwo(pow2.out, pow2.w),
                            !.redone = TRUE]
    /\ Pow2Step

CallAgainNextPowerOfTwo32 ==
    /\ pow2.fn = "NextPowerOfTwo32" /\ pow2.done /\ ~pow2.redone
    /\ pow2' = [pow2 EXCEPT !.again = NextPowerOfTwo32(pow2.out),
                            !.redone = TRUE]
    /\ Pow2Step

CallAgainNextPowerOfTwo64 ==
    /\ pow2.fn = "NextPowerOfTwo64" /\ pow2.done /\ ~pow2.redone
    /\ pow2' = [pow2 EXCEPT !.again = NextPowerOfTwo64(pow2.out),
                            !.redone = TRUE]
    /\ Pow2Step

\* ------------------------------------------- LifecycleManager and Engine

\* e.closables in the order Engine.Initialize registers them: the FFT
\* processor (engine.go:79), then the WebSocket transport (engine.go:120).
Closables == <<"fftProcessor", "wsTransport">>

\* engine(cfg) and NewLifecycleManager (engine.go:22-37, lifecycle.go:30-35):
\* state is lm.state, cancelled says that lm.ctx is done, done that lm.done
\* is closed, closed is e.closed, stream is the PortAudio stream behind
\* e.audio.stream ("nil" when there is none), initialized is
\* e.audio.initialized, closables holds the registered resources and
\* closedLog, a history, the resources closed so far in the order of their
\* Close calls.  pc is the position of the goroutine that runs Shutdown and,
\* inside it, Engine.Close ("none" before Shutdown is called), k the number
\* of turns the loop over e.closables has made.  faults is the environment of
\* Close: the calls on PortAudio and on the closables that return an error
\* when they are made.  calls, a history, lists the calls Close has made on
\* the stream, the closables and PortAudio; serrs and errs are the local
\* slices errs of stopAudioStream (stream.go:114) and of Close
\* (engine.go:176), and res is what Close returned ("none" before it has).
\* frames is the environment of the stream: the number of buffers the audio
\* source delivers.  targets is the list of target ids the router is
\* constructed with (engine.go:90, 129-132).
\* runs, a history, counts the goroutines of run() that Start has spawned;
\* who is the goroutine inside Engine.Close, or Main, whose position in
\* Shutdown is pc otherwise, and lm keeps that position while another
\* goroutine is inside Close.
NewEngine ==
    [state |-> "Initialized", cancelled |-> FALSE, done |-> FALSE,
     closed |-> FALSE, stream |-> "nil", initialized |-> FALSE,
     closables |-> <<>>, closedLog |-> <<>>, pc |-> "none", k |-> 0,
     faults |-> {}, calls |-> <<>>, serrs |-> <<>>, errs |-> <<>>,
     res |-> "none", frames |-> MaxFrames, targets |-> <<"ws">>,
     runs |-> 0, who |-> Main, lm |-> "none"]

\* The calls of Close that can return an error: stream.Stop and stream.Close
\* (stream.go:117-123), WebSocketTransport.Close, which hands on the error of
\* http.Server.Shutdown, and client.Terminate (device.go:60).  StopAll returns
\* the errors of BaseActor.Stop, which has none, System.Close returns nil
\* (system.go:129) and so does FFTProcessor.Close.
Failable == {"stream.Stop", "stream.Close", "wsTransport", "Terminate"}

\* Whether the call c, made now, returns an error.
Fails(c) == c \in engine.faults

\* The engine once Initialize, LifecycleManager.Start and Engine.Run have
\* run: PortAudio is initialised, the resources are registered, the stream is
\* started and run() waits at <-ctx.Done() (stream.go:61).
RunningEngine ==
    [NewEngine EXCEPT !.state = "Running", !.stream = "active",
                      !.initialized = TRUE, !.closables = Closables,
                      !.runs = 1]

\* ------------------------------------------------------------- BaseActor

\* NewBaseActor (actor.go:9-19): the channel capacity for a requested one.
NewBaseActor(capacity) ==
    IF capacity <= 0 THEN DefaultCapacity ELSE capacity

cap(a) == NewBaseActor(reqCap[a])

\* A buffered channel accepts a send without blocking iff it is not full.
ChanHasRoom_Off(a) == Len(mailbox[a]) <= cap(a)
ChanHasRoom(a) == Len(mailbox[a]) < cap(a)

\* System.SendNonBlocking's type assertion actor.(*BaseActor) (system.go:66):
\* it succeeds for a plain *BaseActor only, not for the components, whose
\* dynamic types are *ProcessorComponent, *RouterComponent, *WstComponent.
IsBaseActor(id) == id = "a"

\* Where a thread continues when the call it made returns.
Cont(call) ==
    CASE call = "StopAll" -> "StopAll_loop"
      [] call = "StartAll" -> "StartAll_loop"
      [] call = "processInputStream" -> "cb_sent"
      [] call = "processor" -> "pm_sent"
      [] call = "router" -> "rt_next"
      [] OTHER -> "idle"

After(t) == Cont(th[t].op)

Set(t, r) == th' = [th EXCEPT ![t] = r]

\* StartAll and StopAll, system.go:82-84 and 108-110: errors[id] = err when
\* the actor's Start or Stop returned an error.
Collect_Drop(errs, id, err) == errs
Collect(errs, id, err) == IF err # "nil" THEN errs \cup {id} ELSE errs

\* Whether thread t is inside StartAll or StopAll.
InAll(t) == th[t].op \in {"StartAll", "StopAll"}

\* A call returns to thread t.  Inside StartAll and StopAll the result goes
\* into the errors map; failed, a history, holds the actors whose Start or
\* Stop returned an error to this call of StartAll or StopAll.
Return(t, result) ==
    Set(t, [th[t] EXCEPT
              !.pc = After(t), !.res = result, !.a = "none", !.m = NoMsg,
              !.errs = IF InAll(t) THEN Collect(@, th[t].a, result) ELSE @,
              !.failed = IF InAll(t) /\ result # "nil"
                         THEN @ \cup {th[t].a} ELSE @])

\* System.Send (system.go:45-55): look the actor up, delegate to Actor.Send.
\* r is the calling thread's record and the value is that record once the
\* call is entered; `call` names the caller's operation, which decides where
\* it continues.
SystemSend_Unchecked(r, call, id, msg) ==
    [r EXCEPT !.pc = "Send_check", !.op = call, !.a = id, !.m = msg,
              !.res = "pending", !.snap = 0]
SystemSend(r, call, id, msg) ==
    IF id \in actors
    THEN [r EXCEPT !.pc = "Send_check", !.op = call, !.a = id, !.m = msg,
                   !.res = "pending", !.snap = 0]
    ELSE [r EXCEPT !.pc = Cont(call), !.op = call, !.res = "ErrNotFound",
                   !.snap = 0]

\* System.SendNonBlocking (system.go:57-72): BaseActor.SendNonBlocking for a
\* *BaseActor, Actor.Send for every other actor type.
SystemSendNonBlocking(r, call, id, msg) ==
    IF id \in actors
    THEN [r EXCEPT !.pc = IF IsBaseActor(id) THEN "SNB_check" ELSE "Send_check",
                   !.op = call, !.a = id, !.m = msg, !.res = "pending",
                   !.snap = 0]
    ELSE [r EXCEPT !.pc = Cont(call), !.op = call, !.res = "ErrNotFound",
                   !.snap = 0]

\* The select of BaseActor.Send has a default case (actor.go:37): when the
\* channel cannot take the message the select does not wait.
HasDefaultCase_Blocking == FALSE
HasDefaultCase == TRUE

\* The channel send of a select statement: a send on a closed channel panics,
\* a send on a channel with room enqueues, else the default branch runs.
Enqueue(t, a) ==
    /\ mailbox' = [mailbox EXCEPT ![a] = Append(@, th[t].m)]
    /\ accepted' = [accepted EXCEPT ![a] = Append(@, th[t].m)]

\* a.stopping || !a.started (actor.go:28, 41 and 58).
stoppedOrNotStarted_NotStarted(a) == ~started[a]
stoppedOrNotStarted(a) == stopping[a] \/ ~started[a]

\* BaseActor.Send, lines 26-32: the state check under RLock.
SendCheck(t) ==
    /\ ~panicked
    /\ th[t].pc = "Send_check"
    /\ IF stoppedOrNotStarted(th[t].a)
       THEN Return(t, "ErrActorClosed")
       ELSE Set(t, [th[t] EXCEPT !.pc = "Send_select"])
    /\ UNCHANGED <<actors, registry, reqCap, actorVars, sysCancelled, panicked,
                   accepted, delivered, nextId,
                   stopReturned>>
    /\ UNCHANGED nonActor

\* BaseActor.Send, lines 34-37: the select on the mailbox.
SendSelect(t) ==
    /\ ~panicked
    /\ th[t].pc = "Send_select"
    /\ LET a == th[t].a IN
       IF mbClosed[a]
       THEN /\ panicked' = TRUE
            /\ Set(t, [th[t] EXCEPT !.pc = "panic", !.res = "panic"])
            /\ UNCHANGED <<mailbox, accepted>>
       ELSE IF ChanHasRoom(a)
       THEN /\ Enqueue(t, a)
            /\ Return(t, "nil")
            /\ UNCHANGED panicked
       ELSE /\ HasDefaultCase
            /\ Set(t, [th[t] EXCEPT !.pc = "Send_recheck"])
            /\ UNCHANGED <<mailbox, accepted, panicked>>
    /\ UNCHANGED <<actors, registry, reqCap, mbClosed, started, stopping, wg,
                   sysCancelled, delivered, nextId,
                   stopReturned>>
    /\ UNCHANGED nonActor

\* BaseActor.Send, lines 38-52: the default branch re-checks the state.
SendRecheck(t) ==
    /\ ~panicked
    /\ th[t].pc = "Send_recheck"
    /\ IF stoppedOrNotStarted(th[t].a)
       THEN Return(t, "ErrActorClosed")
       ELSE Return(t, "ErrMailboxFull")
    /\ UNCHANGED <<actors, registry, reqCap, actorVars, sysCancelled, panicked,
                   accepted, delivered, nextId,
                   stopReturned>>
    /\ UNCHANGED nonActor

\* BaseActor.SendNonBlocking, lines 57-62.
SendNonBlockingCheck(t) ==
    /\ ~panicked
    /\ th[t].pc = "SNB_check"
    /\ IF stoppedOrNotStarted(th[t].a)
       THEN Return(t, "ErrActorClosed")
       ELSE Set(t, [th[t] EXCEPT !.pc = "SNB_select"])
    /\ UNCHANGED <<actors, registry, reqCap, actorVars, sysCancelled, panicked,
                   accepted, delivered, nextId,
                   stopReturned>>
    /\ UNCHANGED nonActor

\* BaseActor.SendNonBlocking, lines 64-69.
SendNonBlockingSelect(t) ==
    /\ ~panicked
    /\ th[t].pc = "SNB_select"
    /\ LET a == th[t].a IN
       IF mbClosed[a]
       THEN /\ panicked' = TRUE
            /\ Set(t, [th[t] EXCEPT !.pc = "panic", !.res = "panic"])
            /\ UNCHANGED <<mailbox, accepted>>
       ELSE IF ChanHasRoom(a)
       THEN /\ Enqueue(t, a)
            /\ Return(t, "nil")
            /\ UNCHANGED panicked
       ELSE /\ Return(t, "ErrMailboxFull")
            /\ UNCHANGED <<mailbox, accepted, panicked>>
    /\ UNCHANGED <<actors, registry, reqCap, mbClosed, started, stopping, wg,
                   sysCancelled, delivered, nextId,
                   stopReturned>>
    /\ UNCHANGED nonActor

\* actor.go:80, if a.started: Start finds the actor started.
AlreadyStarted_Never(a) == FALSE
AlreadyStarted(a) == started[a]

\* BaseActor.Start, lines 73-86: the critical section.
StartLock(t) ==
    /\ ~panicked
    /\ th[t].pc = "Start_lock"
    /\ LET a == th[t].a IN
       IF stopping[a]
       THEN Return(t, "ErrActorClosed") /\ UNCHANGED started
       ELSE IF AlreadyStarted(a)
       THEN Return(t, "nil") /\ UNCHANGED started
       ELSE /\ started' = [started EXCEPT ![a] = TRUE]
            /\ Set(t, [th[t] EXCEPT !.pc = "Start_spawn"])
    /\ UNCHANGED <<actors, registry, reqCap, mailbox, mbClosed, stopping, wg,
                   sysCancelled, panicked, accepted, delivered, nextId,
                   stopReturned>>
    /\ UNCHANGED nonActor

\* BaseActor.Start, lines 88-91: wg.Add(1); go a.processLoop(ctx).
StartSpawn(t) ==
    /\ ~panicked
    /\ th[t].pc = "Start_spawn"
    /\ LET a == th[t].a IN
       /\ wg' = [wg EXCEPT ![a] = @ + 1]
       /\ th' = [th EXCEPT ![t] = [@ EXCEPT !.pc = After(t), !.res = "nil",
                                             !.a = "none"],
                           ![a] = [@ EXCEPT !.pc = "loop"]]
    /\ UNCHANGED <<actors, registry, reqCap, mailbox, mbClosed, started, stopping,
                   sysCancelled, panicked, accepted, delivered, nextId,
                   stopReturned>>
    /\ UNCHANGED nonActor

\* actor.go:96, if a.stopping: Stop finds the actor stopping or stopped.
AlreadyStopping_Never(a) == FALSE
AlreadyStopping(a) == stopping[a]

\* BaseActor.Stop, lines 95-103: the critical section.
StopLock(t) ==
    /\ ~panicked
    /\ th[t].pc = "Stop_lock"
    /\ LET a == th[t].a IN
       IF AlreadyStopping(a)
       THEN /\ Return(t, "nil")
            /\ stopReturned' = stopReturned \cup {a}
            /\ UNCHANGED <<stopping, mbClosed>>
       ELSE /\ stopping' = [stopping EXCEPT ![a] = TRUE]
            /\ mbClosed' = [mbClosed EXCEPT ![a] = TRUE]
            /\ Set(t, [th[t] EXCEPT !.pc = "Stop_wait",
                                    !.snap = IF th[t].op = "Stop"
                                             THEN Len(mailbox[a]) ELSE @])
            /\ UNCHANGED stopReturned
    /\ UNCHANGED <<actors, registry, reqCap, mailbox, started, wg, sysCancelled,
                   panicked, accepted, delivered, nextId>>
    /\ UNCHANGED nonActor

\* BaseActor.Stop, lines 105-108: a.wg.Wait(), then return nil.
StopWait(t) ==
    /\ ~panicked
    /\ th[t].pc = "Stop_wait"
    /\ wg[th[t].a] = 0
    /\ Return(t, "nil")
    /\ stopReturned' = stopReturned \cup {th[t].a}
    /\ UNCHANGED <<actors, registry, reqCap, actorVars, sysCancelled, panicked,
                   accepted, delivered, nextId>>
    /\ UNCHANGED nonActor

\* a.processor(ctx, msg), actor.go:126: where the task continues with the
\* message it received.  The test actor's processor only records the message;
\* the components run their processMessage.
AfterDeliver(a, msg) ==
    CASE a = "processor" -> [th[a] EXCEPT !.pc = "pm_get", !.hold = msg]
      [] a = "router" -> [th[a] EXCEPT !.pc = "rt_next", !.hold = msg, !.i = 1]
      [] a = "ws" -> [th[a] EXCEPT !.pc = "ws_send", !.hold = msg]
      [] OTHER -> [th[a] EXCEPT !.pc = "loop"]

\* The message processLoop receives from a non-empty mailbox.
Receive_Last(a) == mailbox[a][Len(mailbox[a])]
Receive(a) == Head(mailbox[a])

\* The mailbox after that receive.
Received(a) == Tail(mailbox[a])

\* processLoop, lines 116-118: the ctx.Done() case of the select.
processLoopDone(a) ==
    /\ ~panicked
    /\ th[a].pc = "loop"
    /\ sysCancelled
    /\ wg' = [wg EXCEPT ![a] = @ - 1]
    /\ Set(a, [th[a] EXCEPT !.pc = "done"])
    /\ UNCHANGED <<actors, registry, reqCap, mailbox, mbClosed, started, stopping,
                   sysCancelled, panicked, accepted, delivered, nextId,
                   stopReturned>>
    /\ UNCHANGED nonActor

\* processLoop, lines 120-127: a message is received and processed.
processLoopRecv(a) ==
    /\ ~panicked
    /\ th[a].pc = "loop"
    /\ Len(mailbox[a]) > 0
    /\ delivered' = [delivered EXCEPT ![a] = Append(@, Receive(a))]
    /\ mailbox' = [mailbox EXCEPT ![a] = Received(a)]
    /\ Set(a, AfterDeliver(a, Receive(a)))
    /\ UNCHANGED <<actors, registry, reqCap, mbClosed, started, stopping, wg,
                   sysCancelled, panicked, accepted, nextId,
                   stopReturned>>
    /\ UNCHANGED nonActor

\* A receive on a closed channel reports !ok once the buffer is empty.
ChanDrained_Early(a) == mbClosed[a]
ChanDrained(a) == mbClosed[a] /\ Len(mailbox[a]) = 0

\* processLoop, lines 120-124: the mailbox is closed and drained.
processLoopClosed(a) ==
    /\ ~panicked
    /\ th[a].pc = "loop"
    /\ ChanDrained(a)
    /\ wg' = [wg EXCEPT ![a] = @ - 1]
    /\ Set(a, [th[a] EXCEPT !.pc = "done"])
    /\ UNCHANGED <<actors, registry, reqCap, mailbox, mbClosed, started, stopping,
                   sysCancelled, panicked, accepted, delivered, nextId,
                   stopReturned>>
    /\ UNCHANGED nonActor

\* ---------------------------------------------------------------- System

\* System.StopAll, lines 98-104: cancel the context, copy the registry.
StopAllBegin(t) ==
    /\ ~panicked
    /\ th[t].pc = "idle"
    /\ SysCanLock
    /\ sysCancelled' = TRUE
    /\ Set(t, [th[t] EXCEPT !.pc = "StopAll_loop", !.op = "StopAll",
                            !.todo = actors, !.res = "pending",
                            !.copy = actors, !.errs = {}, !.failed = {},
                            !.snap = Len(accepted["a"])])
    /\ UNCHANGED <<actors, registry, reqCap, actorVars, panicked, accepted, delivered,
                   nextId,
                   stopReturned>>
    /\ UNCHANGED nonActor

\* The range loops of StartAll and StopAll (system.go:81, 107) go on while
\* an actor of the copied map was not visited.
MoreActors_UntilError(t) == th[t].todo # {} /\ th[t].errs = {}
MoreActors(t) == th[t].todo # {}

\* What StartAll and StopAll return (system.go:90-94, 116-120): nil for an
\* empty errors map, else the map.
AllResult(errs) == IF errs = {} THEN "nil" ELSE "errors"

\* System.StopAll, lines 106-114: the range over the copied map, in any order.
StopAllNext(t) ==
    /\ ~panicked
    /\ th[t].pc = "StopAll_loop"
    /\ MoreActors(t)
    /\ \E a \in th[t].todo :
          Set(t, [th[t] EXCEPT !.pc = "Stop_lock", !.a = a, !.todo = @ \ {a}])
    /\ UNCHANGED <<actors, registry, reqCap, actorVars, sysCancelled, panicked,
                   accepted, delivered, nextId,
                   stopReturned>>
    /\ UNCHANGED nonActor

\* System.StopAll, lines 116-120: BaseActor.Stop never fails, so nil.
StopAllReturn(t) ==
    /\ ~panicked
    /\ th[t].pc = "StopAll_loop"
    /\ ~MoreActors(t)
    /\ Set(t, [th[t] EXCEPT !.pc = "idle", !.op = "none",
                            !.res = AllResult(th[t].errs)])
    /\ UNCHANGED <<actors, registry, reqCap, actorVars, sysCancelled, panicked,
                   accepted, delivered, nextId,
                   stopReturned>>
    /\ UNCHANGED nonActor

\* System.StartAll, lines 75-80: copy the registry under the read lock.
StartAllBegin(t) ==
    /\ ~panicked
    /\ th[t].pc = "idle"
    /\ SysCanLock
    /\ Set(t, [th[t] EXCEPT !.pc = "StartAll_loop", !.op = "StartAll",
                            !.todo = actors, !.res = "pending",
                            !.copy = actors, !.errs = {}, !.failed = {}])
    /\ UNCHANGED <<actors, registry, reqCap, actorVars, sysCancelled, panicked,
                   accepted, delivered, nextId,
                   stopReturned>>
    /\ UNCHANGED nonActor

\* System.StartAll, lines 81-88: the range over the copied map, in any
\* order; actor.Start(s.ctx) is entered.
StartAllNext(t) ==
    /\ ~panicked
    /\ th[t].pc = "StartAll_loop"
    /\ MoreActors(t)
    /\ \E a \in th[t].todo :
          Set(t, [th[t] EXCEPT !.pc = "Start_lock", !.a = a, !.todo = @ \ {a}])
    /\ UNCHANGED <<actors, registry, reqCap, actorVars, sysCancelled, panicked,
                   accepted, delivered, nextId,
                   stopReturned>>
    /\ UNCHANGED nonActor

\* System.StartAll, lines 90-94: nil or the errors map.
StartAllReturn(t) ==
    /\ ~panicked
    /\ th[t].pc = "StartAll_loop"
    /\ ~MoreActors(t)
    /\ Set(t, [th[t] EXCEPT !.pc = "StartAll_ret",
                            !.res = AllResult(th[t].errs)])
    /\ UNCHANGED <<actors, registry, reqCap, actorVars, sysCancelled, panicked,
                   accepted, delivered, nextId,
                   stopReturned>>
    /\ UNCHANGED nonActor

\* ----------------------------------------------------------- DoubleBuffer

Readers == {"r1", "r2"}
Writer == "w"

\* New (double.go:51-56): both slots as given (zeros), slot 0 active.
\* mu is the RWMutex: the writer holding it and the readers holding it.
\* elem is the type parameter T, a slice type.
NewDoubleBuffer ==
    [buffers |-> [k \in {0, 1} |-> [i \in 1..SlotLen |-> 0]],
     active |-> 0, writer |-> FALSE, readers |-> {}, elem |-> "[]float64"]

\* A thread that uses the buffer.  out is the value Get returned, as it was
\* at the return; alias says that the returned slice shares its array with
\* slot src, and cur is the array of a returned slice that has its own;
\* mod says that the caller has modified the slice it was given.
DbThread0 == [pc |-> "idle", i |-> 0, src |-> 0, val |-> 0, out |-> <<>>,
              from |-> 0, to |-> 0, alias |-> FALSE, cur |-> <<>>,
              mod |-> FALSE]

\* The slice types copyOf copies into a new array (double.go:118-150).  A
\* value of any other slice type goes to deepCopyWithReflection, whose switch
\* has a case for structs only and returns every other value as it is
\* (double.go:172, 218-221).
CopiedTypes == {"[]float32", "[]float64", "[]int32", "[]complex128"}
Copies_Always(elem) == TRUE
Copies(elem) == elem \in CopiedTypes

\* The slice types of the buffers in SpecCopy.
ElemTypes == {"[]float64", "[]int"}

\* sync.RWMutex: RLock is granted while no writer holds the lock, Lock while
\* nobody holds it.
CanRLock == ~db.writer
CanLock_IgnoreReaders == ~db.writer
CanLock == ~db.writer /\ db.readers = {}

\* The slot Swap hands to updateFn (double.go:88).
Inactive_Active == db.active
Inactive == 1 - db.active

\* Get, double.go:65-68: RLock, then copyOf evaluates db.buffers[db.active].
GetLock(r) ==
    /\ dbt[r].pc = "idle"
    /\ CanRLock
    /\ db' = [db EXCEPT !.readers = @ \cup {r}]
    /\ dbt' = [dbt EXCEPT ![r] = [DbThread0 EXCEPT
                                    !.pc = "copy", !.i = 1, !.src = db.active,
                                    !.from = Len(published)]]
    /\ UNCHANGED <<published, detector, pow2, actorSide, hotPath, engine>>

\* copyOf, double.go:127-133: copy(dst, s), one element per step.
GetCopy(r) ==
    /\ dbt[r].pc = "copy"
    /\ Copies(db.elem)
    /\ dbt[r].i <= SlotLen
    /\ dbt' = [dbt EXCEPT ![r].out = Append(@, db.buffers[dbt[r].src][dbt[r].i]),
                          ![r].i = @ + 1]
    /\ UNCHANGED <<db, published, detector, pow2, actorSide, hotPath, engine>>

\* copyOf, double.go:153, and deepCopyWithReflection, double.go:218-221: a
\* slice of another type is returned as it is, sharing the slot's array.
GetAlias(r) ==
    /\ dbt[r].pc = "copy"
    /\ ~Copies(db.elem)
    /\ dbt[r].i <= SlotLen
    /\ dbt' = [dbt EXCEPT ![r].out = db.buffers[dbt[r].src],
                          ![r].alias = TRUE,
                          ![r].i = SlotLen + 1]
    /\ UNCHANGED <<db, published, detector, pow2, actorSide, hotPath, engine>>

\* Get, double.go:66: the deferred RUnlock, and the return of the copy.
GetReturn(r) ==
    /\ dbt[r].pc = "copy"
    /\ dbt[r].i > SlotLen
    /\ db' = [db EXCEPT !.readers = @ \ {r}]
    /\ dbt' = [dbt EXCEPT ![r].pc = "idle", ![r].to = Len(published),
                          ![r].cur = IF dbt[r].alias THEN <<>> ELSE dbt[r].out]
    /\ UNCHANGED <<published, detector, pow2, actorSide, hotPath, engine>>

\* Swap, double.go:82-88: Lock, pick the inactive slot.  The update function
\* of this writer fills the slot with the number of the swap, element by
\* element (double_test.go:80-85).
SwapLock ==
    /\ dbt[Writer].pc = "idle"
    /\ Len(published) <= MaxSwaps
    /\ CanLock
    /\ db' = [db EXCEPT !.writer = TRUE]
    /\ dbt' = [dbt EXCEPT ![Writer] = [@ EXCEPT !.pc = "write", !.i = 1,
                                                !.from = 1,
                                                !.src = Inactive,
                                                !.val = Len(published)]]
    /\ UNCHANGED <<published, detector, pow2, actorSide, hotPath, engine>>

\* Swap entered with an update function that writes only the elements from
\* `from` on (none for from = SlotLen + 1), as the second update function of
\* TestDoubleBuffer_NonSliceTypes writes one field only.
SwapLockSome ==
    /\ dbt[Writer].pc = "idle"
    /\ Len(published) <= MaxSwaps
    /\ CanLock
    /\ db' = [db EXCEPT !.writer = TRUE]
    /\ \E from \in 2..(SlotLen + 1) :
         dbt' = [dbt EXCEPT ![Writer] = [@ EXCEPT !.pc = "write", !.i = from,
                                                  !.from = from,
                                                  !.src = Inactive,
                                                  !.val = Len(published)]]
    /\ UNCHANGED <<published, detector, pow2, actorSide, hotPath, engine>>

\* Swap, double.go:89: updateFn writes one element of the inactive slot.
SwapWrite ==
    /\ dbt[Writer].pc = "write"
    /\ dbt[Writer].i <= SlotLen
    /\ db' = [db EXCEPT !.buffers[dbt[Writer].src][dbt[Writer].i] =
                            dbt[Writer].val]
    /\ dbt' = [dbt EXCEPT ![Writer].i = @ + 1]
    /\ UNCHANGED <<published, detector, pow2, actorSide, hotPath, engine>>

\* Swap, double.go:90: db.active = inactive, then the deferred Unlock.
SwapFlip ==
    /\ dbt[Writer].pc = "write"
    /\ dbt[Writer].i > SlotLen
    /\ db' = [db EXCEPT !.active = dbt[Writer].src, !.writer = FALSE]
    /\ published' = Append(published, db.buffers[dbt[Writer].src])
    /\ dbt' = [dbt EXCEPT ![Writer].pc = "idle"]
    /\ UNCHANGED <<actorSide, hotPath, engine, detector, pow2>>

\* The value a caller of Get stores into the slice it was given.
Mark == 9

\* The caller of Get modifies the slice it was given, once: it stores Mark
\* as its first element, in the array the slice refers to.
CallerWrite(r) ==
    /\ dbt[r].pc = "idle"
    /\ dbt[r].out # <<>>
    /\ ~dbt[r].mod
    /\ IF dbt[r].alias
       THEN /\ db' = [db EXCEPT !.buffers[dbt[r].src][1] = Mark]
            /\ dbt' = [dbt EXCEPT ![r].mod = TRUE]
       ELSE /\ dbt' = [dbt EXCEPT ![r].mod = TRUE, ![r].cur[1] = Mark]
            /\ UNCHANGED db
    /\ UNCHANGED <<published, detector, pow2, actorSide, hotPath, engine>>

InitDb ==
    /\ db = NewDoubleBuffer
    /\ dbt = [t \in Readers \cup {Writer} |-> DbThread0]
    /\ published = <<NewDoubleBuffer.buffers[0]>>

\* ------------------------------------------------------------ FFTProcessor

\* p.frequencyBins (part_016:129-133): bin i is i * sampleRate / size, here
\* for an FFT of size 2 at 44100 Hz.  magnitudeSize is its length
\* (part_016:126 and 165).
FrequencyBins == <<0, 22050>>
magnitudeSize == Len(FrequencyBins)
fftSize == 2 * (magnitudeSize - 1)

\* The sample buffers the audio source hands to the callback.  A sample is
\* counted in units of 1/normFactor, the window coefficients are 1.
Inputs == {<<2, 2>>, <<4, 0>>}

Abs(v) == IF v < 0 THEN -v ELSE v

\* fftFunc.Coefficients (part_016:182) for two real samples: the two-point
\* DFT, both coefficients real.
Coefficients(x) == <<x[1] + x[2], x[1] - x[2]>>

\* part_016:191-198: the magnitude of bin i (bins counted from 1 here, from 0
\* in the code), scaled by fftInputScale = 1/size and doubled for the bins
\* strictly between DC and Nyquist.
Magnitude(x, i) ==
    LET mag == Abs(Coefficients(x)[i]) \div fftSize
    IN  IF i - 1 > 0 /\ i - 1 < fftSize \div 2 THEN mag * 2 ELSE mag

\* part_016:206-209: bins below 200 Hz weigh double.
Weight(i) == IF FrequencyBins[i] < 200 THEN 2 ELSE 1

\* part_016:211-220: the half-wave rectified, weighted difference.
Flux(cur, prev, i) ==
    LET diff == (cur - prev) * Weight(i)
    IN  IF diff > 0 THEN diff ELSE 0

Zeros(n) == [i \in 1..n |-> 0]

\* NewFFTProcessor (part_016:136-153).
NewFFTProcessor ==
    [inputBuffer |-> Zeros(fftSize), prevMagnitudes |-> Zeros(magnitudeSize),
     spectralFlux |-> Zeros(magnitudeSize)]

\* NewFloat64DoubleBuffer(magnitudeBuffer1, magnitudeBuffer2), part_016:147.
NewFloat64DoubleBuffer ==
    [buffers |-> [k \in {0, 1} |-> Zeros(magnitudeSize)],
     active |-> 0, writer |-> FALSE, readers |-> {}]

\* ------------------------------------------------------------------- pools

\* RawMessagePool.New (signal.go:120-124).
NewRawAudioMessage ==
    [Magnitudes |-> <<>>, SpectralFlux |-> "nil", FrameCount |-> 0]

\* FftDataPool.New (part_012:68-70).
NewFFTData ==
    [Magnitudes |-> <<>>, SpectralFlux |-> <<>>, FrameCount |-> 0]

\* sync.Pool.Get returns one of the records the pool holds or, at its own
\* discretion (the pool may have dropped them), a record made by New, which
\* gets the next address of the heap.
PoolGet(pool, heap) == pool \cup {Len(heap) + 1}

\* The heap after Get returned address r.
Alloc(heap, r, new) == IF r > Len(heap) THEN Append(heap, new) ELSE heap

\* PutRawMessage (signal.go:131-135): only Magnitudes and FrameCount are reset.
PutRawMessage(t, r) ==
    /\ rawHeap' = [rawHeap EXCEPT ![r].Magnitudes = <<>>, ![r].FrameCount = 0]
    /\ rawPool' = rawPool \cup {r}
    /\ rawReleased' = [rawReleased EXCEPT ![t] = @ + 1]

InitHotPath ==
    /\ detector = NewBPMDetector
    /\ pow2 = NoCall
    /\ frameCount = 0
    /\ fftProc = NewFFTProcessor
    /\ rawHeap = <<>>
    /\ rawPool = {}
    /\ fftHeap = <<>>
    /\ fftPool = {}
    /\ fftOut = <<>>
    /\ wsSent = <<>>
    /\ rawAcquired = 0
    /\ rawReleased = [t \in Threads |-> 0]

\* ------------------------------------------------ Engine.processInputStream

\* e.ctx.Done() (stream.go:99): Engine.cancel is called nowhere, so the
\* engine's own context is never done.
EngineCtxDone == FALSE

\* stream.go:103, processor.go:61: err != nil.
SendFailed_Never(res) == FALSE
SendFailed_Always(res) == TRUE
SendFailed(res) == res # "nil"

\* stream.go:68-74 and part_016:163-188: count the frame, load the samples,
\* compute the coefficients, enter Swap (Lock).
processInputStream(t) ==
    /\ ~panicked
    /\ th[t].pc = "idle"
    /\ frameCount < engine.frames
    /\ CanLock
    /\ frameCount' = frameCount + 1
    /\ \E x \in Inputs : fftProc' = [fftProc EXCEPT !.inputBuffer = x]
    /\ db' = [db EXCEPT !.writer = TRUE]
    /\ Set(t, [th[t] EXCEPT !.pc = "cb_bin", !.op = "processInputStream",
                            !.i = 1, !.res = "pending", !.snap = 0])
    /\ UNCHANGED <<actors, registry, reqCap, actorVars, sysCancelled, panicked,
                   accepted, delivered, nextId,
                   stopReturned>>
    /\ UNCHANGED <<dbt, published, detector, pow2, rawHeap, rawPool, fftHeap, fftPool, fftOut,
                   wsSent, rawAcquired, rawReleased, engine>>

\* part_016:190-224: one turn of the loop over the bins, which writes the
\* inactive slot, p.spectralFlux and p.prevMagnitudes.
ProcessBin(t) ==
    /\ ~panicked
    /\ th[t].pc = "cb_bin"
    /\ th[t].i <= magnitudeSize
    /\ LET i == th[t].i
           cur == Magnitude(fftProc.inputBuffer, i)
       IN  /\ db' = [db EXCEPT !.buffers[Inactive][i] = cur]
           /\ fftProc' = [fftProc EXCEPT
                            !.spectralFlux[i] =
                                Flux(cur, fftProc.prevMagnitudes[i], i),
                            !.prevMagnitudes[i] = cur]
    /\ Set(t, [th[t] EXCEPT !.i = @ + 1])
    /\ UNCHANGED <<actors, registry, reqCap, actorVars, sysCancelled, panicked,
                   accepted, delivered, nextId,
                   stopReturned>>
    /\ UNCHANGED <<dbt, published, detector, pow2, frameCount, rawHeap, rawPool, fftHeap,
                   fftPool, fftOut, wsSent, rawAcquired, rawReleased, engine>>

\* Swap's end (double_test.go:369-370), then stream.go:75-103: GetMagnitudes
\* returns a copy of the slot just made active, GetSpectralFlux returns
\* p.spectralFlux itself (part_016:312-314); a record is taken from the pool,
\* its fields are set, and the select on e.ctx.Done() takes its default
\* branch, which enters System.SendNonBlocking("processor", rawMsg).  The BPM
\* detector (stream.go:82-87) is used by this thread alone, so its lock is
\* free; the two numbers it yields are carried along and left out here.
SendRawMessage(t) ==
    /\ ~panicked
    /\ th[t].pc = "cb_bin"
    /\ th[t].i > magnitudeSize
    /\ LET magnitudes == db.buffers[Inactive] IN
       /\ db' = [db EXCEPT !.active = Inactive, !.writer = FALSE]
       /\ fftOut' = Append(fftOut, [magnitudes |-> magnitudes,
                                    spectralFlux |-> fftProc.spectralFlux])
       /\ \E r \in PoolGet(rawPool, rawHeap) :
            LET rawMsg == [kind |-> "raw", id |-> r, from |-> t]
                held == [th[t] EXCEPT !.hold = rawMsg, !.i = 0]
            IN  /\ rawHeap' = [Alloc(rawHeap, r, NewRawAudioMessage) EXCEPT
                                 ![r] = [Magnitudes |-> magnitudes,
                                         SpectralFlux |-> "p.spectralFlux",
                                         FrameCount |-> frameCount]]
                /\ rawPool' = rawPool \ {r}
                /\ Set(t, IF EngineCtxDone
                          THEN [held EXCEPT !.pc = "cb_sent",
                                            !.res = "ctx.Done"]
                          ELSE SystemSendNonBlocking(held, "processInputStream",
                                                     "processor", rawMsg))
       /\ rawAcquired' = rawAcquired + 1
    /\ UNCHANGED <<actors, registry, reqCap, actorVars, sysCancelled, panicked,
                   accepted, delivered, nextId,
                   stopReturned>>
    /\ UNCHANGED <<dbt, published, detector, pow2, frameCount, fftProc, fftHeap, fftPool,
                   wsSent, rawReleased, engine>>

\* stream.go:100 and 103-107: the record goes back to the pool when it was
\* not sent; the callback returns nothing.
CallbackSent(t) ==
    /\ ~panicked
    /\ th[t].pc = "cb_sent"
    /\ IF SendFailed(th[t].res)
       THEN PutRawMessage(t, th[t].hold.id)
       ELSE UNCHANGED <<rawHeap, rawPool, rawReleased>>
    /\ Set(t, [th[t] EXCEPT !.pc = "idle", !.hold = NoMsg])
    /\ UNCHANGED <<actors, registry, reqCap, actorVars, sysCancelled, panicked,
                   accepted, delivered, nextId,
                   stopReturned>>
    /\ UNCHANGED <<db, dbt, published, detector, pow2, frameCount, fftProc, fftHeap, fftPool,
                   fftOut, wsSent, rawAcquired, engine>>

\* ------------------------------------------------------ ProcessorComponent

\* processor.go:30-51: the type check, a record from FftDataPool, the frame
\* count and the copy of the magnitudes.  The destination of the flux is
\* resized and filled by the steps below.
ProcessorGet(t) ==
    /\ ~panicked
    /\ th[t].pc = "pm_get"
    /\ IF th[t].hold.kind # "raw"
       THEN /\ Set(t, [th[t] EXCEPT !.pc = "loop", !.hold = NoMsg])
            /\ UNCHANGED <<fftHeap, fftPool>>
       ELSE \E f \in PoolGet(fftPool, fftHeap) :
              /\ fftHeap' = [Alloc(fftHeap, f, NewFFTData) EXCEPT
                               ![f] = [Magnitudes |->
                                           rawHeap[th[t].hold.id].Magnitudes,
                                       SpectralFlux |-> <<>>,
                                       FrameCount |->
                                           rawHeap[th[t].hold.id].FrameCount]]
              /\ fftPool' = fftPool \ {f}
              /\ Set(t, [th[t] EXCEPT !.pc = "pm_flux", !.out = f, !.i = 1])
    /\ UNCHANGED <<actors, registry, reqCap, actorVars, sysCancelled, panicked,
                   accepted, delivered, nextId,
                   stopReturned>>
    /\ UNCHANGED <<db, dbt, published, detector, pow2, frameCount, fftProc, rawHeap, rawPool,
                   fftOut, wsSent, rawAcquired, rawReleased, engine>>

\* The elements rawMsg.SpectralFlux refers to: those of p.spectralFlux.
FluxLen_Short(raw) ==
    IF raw.SpectralFlux = "nil" THEN 0 ELSE magnitudeSize - 1
FluxLen(raw) == IF raw.SpectralFlux = "nil" THEN 0 ELSE magnitudeSize

\* processor.go:59: copy(fftMsg.SpectralFlux, rawMsg.SpectralFlux), one
\* element per step; the source is the memory Process writes.
ProcessorCopyFlux(t) ==
    /\ ~panicked
    /\ th[t].pc = "pm_flux"
    /\ th[t].i <= FluxLen(rawHeap[th[t].hold.id])
    /\ fftHeap' = [fftHeap EXCEPT ![th[t].out].SpectralFlux =
                       Append(@, fftProc.spectralFlux[th[t].i])]
    /\ Set(t, [th[t] EXCEPT !.i = @ + 1])
    /\ UNCHANGED <<actors, registry, reqCap, actorVars, sysCancelled, panicked,
                   accepted, delivered, nextId,
                   stopReturned>>
    /\ UNCHANGED <<db, dbt, published, detector, pow2, frameCount, fftProc, rawHeap, rawPool,
                   fftPool, fftOut, wsSent, rawAcquired, rawReleased, engine>>

\* processor.go:61: a.system.Send(a.routerID, fftMsg).
ProcessorSend(t) ==
    /\ ~panicked
    /\ th[t].pc = "pm_flux"
    /\ th[t].i > FluxLen(rawHeap[th[t].hold.id])
    /\ Set(t, SystemSend(th[t], "processor", "router",
                         [kind |-> "fft", id |-> th[t].out, from |-> t]))
    /\ UNCHANGED <<actors, registry, reqCap, actorVars, sysCancelled, panicked,
                   accepted, delivered, nextId,
                   stopReturned>>
    /\ UNCHANGED nonActor

\* processor.go:61-64 and the deferred PutRawMessage of line 37.
ProcessorSent(t) ==
    /\ ~panicked
    /\ th[t].pc = "pm_sent"
    /\ fftPool' = IF SendFailed(th[t].res) THEN fftPool \cup {th[t].out}
                  ELSE fftPool
    /\ PutRawMessage(t, th[t].hold.id)
    /\ Set(t, [th[t] EXCEPT !.pc = "loop", !.hold = NoMsg, !.out = 0,
                            !.i = 0, !.op = "none", !.res = "none"])
    /\ UNCHANGED <<actors, registry, reqCap, actorVars, sysCancelled, panicked,
                   accepted, delivered, nextId,
                   stopReturned>>
    /\ UNCHANGED <<db, dbt, published, detector, pow2, frameCount, fftProc, fftHeap, fftOut,
                   wsSent, rawAcquired, engine>>

\* --------------------------------------------------------- RouterComponent

\* a.targetIDs, the list NewRouter was given (part_012:26); <<"ws">> as
\* Engine.initializeSystem builds it (engine.go:129).
targetIDs == engine.targets

\* part_012:46: the loop over a.targetIDs ends after the last target; it has
\* no other exit.
RouterDone_OnError(t) ==
    th[t].i > Len(targetIDs) \/ (th[t].i > 1 /\ th[t].res # "nil")
RouterDone(t) == th[t].i > Len(targetIDs)

\* part_012:37-52: the type check and the next turn of the loop over the
\* targets; the error of a send is logged and the loop goes on.
RouterNext(t) ==
    /\ ~panicked
    /\ th[t].pc = "rt_next"
    /\ IF th[t].hold.kind # "fft" \/ RouterDone(t)
       THEN Set(t, [th[t] EXCEPT !.pc = "loop", !.hold = NoMsg, !.i = 0,
                                 !.op = "none", !.res = "none"])
       ELSE Set(t, SystemSend([th[t] EXCEPT !.i = @ + 1], "router",
                              targetIDs[th[t].i], th[t].hold))
    /\ UNCHANGED <<actors, registry, reqCap, actorVars, sysCancelled, panicked,
                   accepted, delivered, nextId,
                   stopReturned>>
    /\ UNCHANGED nonActor

\* ------------------------------------------------------------ WstComponent

\* wst.go:27-45: the payload is built from the record the message points to
\* and handed to the sender; the record is not returned to its pool.
WstProcessMessage(t) ==
    /\ ~panicked
    /\ th[t].pc = "ws_send"
    /\ wsSent' = IF th[t].hold.kind = "fft"
                 THEN Append(wsSent, fftHeap[th[t].hold.id])
                 ELSE wsSent
    /\ Set(t, [th[t] EXCEPT !.pc = "loop", !.hold = NoMsg])
    /\ UNCHANGED <<actors, registry, reqCap, actorVars, sysCancelled, panicked,
                   accepted, delivered, nextId,
                   stopReturned>>
    /\ UNCHANGED <<db, dbt, published, detector, pow2, frameCount, fftProc, rawHeap, rawPool,
                   fftHeap, fftPool, fftOut, rawAcquired, rawReleased, engine>>

\* ------------------------------------------- the driver's control operations

\* Stop of the "processor" actor.
StopProcessor(t) ==
    /\ ~panicked
    /\ th[t].pc = "idle"
    /\ ~stopping["processor"]
    /\ Set(t, [th[t] EXCEPT !.pc = "Stop_lock", !.op = "Stop",
                            !.a = "processor", !.res = "pending", !.snap = 0])
    /\ UNCHANGED <<actors, registry, reqCap, actorVars, sysCancelled, panicked,
                   accepted, delivered, nextId,
                   stopReturned>>
    /\ UNCHANGED nonActor

\* Engine.Close (engine.go:167-192) stops the actor system once: e.closed
\* makes every later call return at once.
EngineStopAll(t) ==
    /\ ~sysCancelled
    /\ StopAllBegin(t)

\* System.Close (system.go:123-130): under s.mu, the registry is replaced by
\* an empty map.
CloseRegistry(t) ==
    /\ ~panicked
    /\ th[t].pc = "idle"
    /\ SysCanLock
    /\ actors' = {}
    /\ registry' = [registry EXCEPT !.obj = [id \in ActorIds |-> "none"],
                                    !.closes = 1]
    /\ Set(t, [th[t] EXCEPT !.op = "Close", !.res = "nil"])
    /\ UNCHANGED <<reqCap, actorVars, sysCancelled, panicked, accepted,
                   delivered, nextId,
                   stopReturned>>
    /\ UNCHANGED nonActor

\* Engine.Close calls System.Close once, when StopAll has returned
\* (engine.go:186-192).
SystemClose(t) ==
    /\ sysCancelled
    /\ actors # {}
    /\ CloseRegistry(t)

\* ------------------------------------------------- the clients of SpecActor

CallSend(t) ==
    /\ ~panicked
    /\ th[t].pc = "idle"
    /\ SysCanLock
    /\ nextId <= MaxMsgs
    /\ nextId' = nextId + 1
    /\ Set(t, SystemSend(th[t], "Send", "a",
                         [kind |-> "test", id |-> nextId, from |-> t]))
    /\ UNCHANGED <<actors, registry, reqCap, actorVars, sysCancelled, panicked,
                   accepted, delivered,
                   stopReturned>>
    /\ UNCHANGED nonActor

CallSendNonBlocking(t) ==
    /\ ~panicked
    /\ th[t].pc = "idle"
    /\ SysCanLock
    /\ nextId <= MaxMsgs
    /\ nextId' = nextId + 1
    /\ Set(t, SystemSendNonBlocking(th[t], "SendNonBlocking", "a",
                         [kind |-> "test", id |-> nextId, from |-> t]))
    /\ UNCHANGED <<actors, registry, reqCap, actorVars, sysCancelled, panicked,
                   accepted, delivered,
                   stopReturned>>
    /\ UNCHANGED nonActor

CallStart(t) ==
    /\ ~panicked
    /\ th[t].pc = "idle"
    /\ Set(t, [th[t] EXCEPT !.pc = "Start_lock", !.op = "Start", !.a = "a",
                            !.res = "pending", !.snap = 0])
    /\ UNCHANGED <<actors, registry, reqCap, actorVars, sysCancelled, panicked,
                   accepted, delivered, nextId,
                   stopReturned>>
    /\ UNCHANGED nonActor

CallStop(t) ==
    /\ ~panicked
    /\ th[t].pc = "idle"
    /\ Set(t, [th[t] EXCEPT !.pc = "Stop_lock", !.op = "Stop", !.a = "a",
                            !.res = "pending", !.snap = 0])
    /\ UNCHANGED <<actors, registry, reqCap, actorVars, sysCancelled, panicked,
                   accepted, delivered, nextId,
                   stopReturned>>
    /\ UNCHANGED nonActor

\* The ids the clients register actors under: one that is free at first and
\* one that is taken.
RegisterIds == {"a", "processor"}

\* Register, system.go:22-26: s.mu.Lock(), id := actor.ID(); the actor is one
\* the calling client has constructed.  The clients register before the
\* system is closed.
RegisterLock(t) ==
    /\ ~panicked
    /\ th[t].pc = "idle"
    /\ registry.closes = 0
    /\ SysCanLock
    /\ registry' = [registry EXCEPT !.writer = t]
    /\ \E id \in RegisterIds :
          Set(t, [th[t] EXCEPT !.pc = "Register_check", !.op = "Register",
                               !.a = id, !.res = "pending"])
    /\ UNCHANGED <<actors, reqCap, actorVars, sysCancelled, panicked,
                   accepted, delivered, nextId, stopReturned>>
    /\ UNCHANGED nonActor

\* Register, system.go:26-28: the id is a key of s.actors, the error is
\* returned and the deferred Unlock runs.
RegisterDuplicate(t) ==
    /\ ~panicked
    /\ th[t].pc = "Register_check"
    /\ registry.obj[th[t].a] # "none"
    /\ registry' = [registry EXCEPT !.writer = "none"]
    /\ Set(t, [th[t] EXCEPT !.pc = "idle", !.res = "ErrDuplicate"])
    /\ UNCHANGED <<actors, reqCap, actorVars, sysCancelled, panicked,
                   accepted, delivered, nextId, stopReturned>>
    /\ UNCHANGED nonActor

\* Register, system.go:26: the id is not a key of s.actors.
RegisterCheck(t) ==
    /\ ~panicked
    /\ th[t].pc = "Register_check"
    /\ registry.obj[th[t].a] = "none"
    /\ Set(t, [th[t] EXCEPT !.pc = "Register_store"])
    /\ UNCHANGED <<actors, registry, reqCap, actorVars, sysCancelled, panicked,
                   accepted, delivered, nextId, stopReturned>>
    /\ UNCHANGED nonActor

\* Register, system.go:30-33: s.actors[id] = actor, return nil, Unlock.
RegisterStore(t) ==
    /\ ~panicked
    /\ th[t].pc = "Register_store"
    /\ registry' = [registry EXCEPT !.obj[th[t].a] = t, !.writer = "none"]
    /\ actors' = actors \cup {th[t].a}
    /\ Set(t, [th[t] EXCEPT !.pc = "idle", !.res = "nil"])
    /\ UNCHANGED <<reqCap, actorVars, sysCancelled, panicked,
                   accepted, delivered, nextId, stopReturned>>
    /\ UNCHANGED nonActor

\* System.Get (system.go:36-43): the lookup under the read lock; res is the
\* actor found or "absent".
SystemGet(id) == IF id \in actors THEN registry.obj[id] ELSE "absent"

CallGet(t) ==
    /\ ~panicked
    /\ th[t].pc = "idle"
    /\ SysCanLock
    /\ \E id \in ActorIds :
          Set(t, [th[t] EXCEPT !.op = "Get", !.a = id, !.res = SystemGet(id)])
    /\ UNCHANGED <<actors, registry, reqCap, actorVars, sysCancelled, panicked,
                   accepted, delivered, nextId, stopReturned>>
    /\ UNCHANGED nonActor

\* The client has looked at what StartAll returned.
StartAllDone(t) ==
    /\ ~panicked
    /\ th[t].pc = "StartAll_ret"
    /\ Set(t, [th[t] EXCEPT !.pc = "idle"])
    /\ UNCHANGED <<actors, registry, reqCap, actorVars, sysCancelled, panicked,
                   accepted, delivered, nextId, stopReturned>>
    /\ UNCHANGED nonActor

\* System.Close (system.go:123-130) as a client calls it, at any time.
CallClose(t) ==
    /\ registry.closes = 0
    /\ CloseRegistry(t)

\* SpecSystem: two clients use one System concurrently.  It holds the
\* processor component at first; the clients register actors, start "a",
\* look actors up, send to "a" and close the system.
InitSystem ==
    /\ actors = {"processor"}
    /\ registry = Registry({"processor"})
    /\ reqCap = [a \in ActorIds |-> 1]
    /\ mailbox = [a \in ActorIds |-> <<>>]
    /\ mbClosed = [a \in ActorIds |-> FALSE]
    /\ started = [a \in ActorIds |-> FALSE]
    /\ stopping = [a \in ActorIds |-> FALSE]
    /\ wg = [a \in ActorIds |-> 0]
    /\ sysCancelled = FALSE
    /\ panicked = FALSE
    /\ accepted = [a \in ActorIds |-> <<>>]
    /\ delivered = [a \in ActorIds |-> <<>>]
    /\ nextId = 1
    /\ th = [t \in Threads |->
               Thread0(IF t \in ActorIds THEN "none" ELSE "idle")]
    /\ stopReturned = {}
    /\ engine = NewEngine
    /\ InitDb
    /\ InitHotPath

NextSystem ==
    \/ \E t \in Clients : RegisterLock(t)
    \/ \E t \in Clients : RegisterDuplicate(t)
    \/ \E t \in Clients : RegisterCheck(t)
    \/ \E t \in Clients : RegisterStore(t)
    \/ \E t \in Clients : CallGet(t)
    \/ \E t \in Clients : CallSend(t)
    \/ \E t \in Clients : CallSendNonBlocking(t)
    \/ \E t \in Clients : SendCheck(t)
    \/ \E t \in Clients : SendSelect(t)
    \/ \E t \in Clients : SendRecheck(t)
    \/ \E t \in Clients : SendNonBlockingCheck(t)
    \/ \E t \in Clients : SendNonBlockingSelect(t)
    \/ \E t \in Clients : CallStart(t)
    \/ \E t \in Clients : StartLock(t)
    \/ \E t \in Clients : StartSpawn(t)
    \/ \E t \in Clients : CallClose(t)
    \/ processLoopRecv("a")

SpecSystem == InitSystem /\ [][NextSystem]_vars

InitActor ==
    /\ actors = {"a"}
    /\ registry = Registry({"a"})
    /\ reqCap \in {f \in [ActorIds -> RequestedCaps \cup {2}] :
                     \A x \in ActorIds \ {"a"} : f[x] = 2}
    /\ mailbox = [a \in ActorIds |-> <<>>]
    /\ mbClosed = [a \in ActorIds |-> FALSE]
    /\ started = [a \in ActorIds |-> FALSE]
    /\ stopping = [a \in ActorIds |-> FALSE]
    /\ wg = [a \in ActorIds |-> 0]
    /\ sysCancelled = FALSE
    /\ panicked = FALSE
    /\ accepted = [a \in ActorIds |-> <<>>]
    /\ delivered = [a \in ActorIds |-> <<>>]
    /\ nextId = 1
    /\ th = [t \in Threads |->
               Thread0(IF t \in ActorIds THEN "none" ELSE "idle")]
    /\ stopReturned = {}
    /\ engine = NewEngine
    /\ InitDb
    /\ InitHotPath

NextActor ==
    \/ \E t \in Clients : CallSend(t)
    \/ \E t \in Clients : CallSendNonBlocking(t)
    \/ \E t \in Clients : CallStart(t)
    \/ \E t \in Clients : CallStop(t)
    \/ \E t \in Clients : StopAllBegin(t)
    \/ \E t \in Clients : StopAllNext(t)
    \/ \E t \in Clients : StopAllReturn(t)
    \/ \E t \in Clients : SendCheck(t)
    \/ \E t \in Clients : SendSelect(t)
    \/ \E t \in Clients : SendRecheck(t)
    \/ \E t \in Clients : SendNonBlockingCheck(t)
    \/ \E t \in Clients : SendNonBlockingSelect(t)
    \/ \E t \in Clients : StartLock(t)
    \/ \E t \in Clients : StartSpawn(t)
    \/ \E t \in Clients : StopLock(t)
    \/ \E t \in Clients : StopWait(t)
    \/ processLoopDone("a")
    \/ processLoopRecv("a")
    \/ processLoopClosed("a")

SpecActor == InitActor /\ [][NextActor]_vars

\* SpecBuffer: one writer and two readers on one double buffer.
InitBuffer ==
    /\ actors = {}
    /\ registry = Registry({})
    /\ reqCap = [a \in ActorIds |-> 2]
    /\ mailbox = [a \in ActorIds |-> <<>>]
    /\ mbClosed = [a \in ActorIds |-> FALSE]
    /\ started = [a \in ActorIds |-> FALSE]
    /\ stopping = [a \in ActorIds |-> FALSE]
    /\ wg = [a \in ActorIds |-> 0]
    /\ sysCancelled = FALSE
    /\ panicked = FALSE
    /\ accepted = [a \in ActorIds |-> <<>>]
    /\ delivered = [a \in ActorIds |-> <<>>]
    /\ nextId = 1
    /\ th = [t \in Threads |->
               Thread0(IF t \in ActorIds THEN "none" ELSE "idle")]
    /\ stopReturned = {}
    /\ engine = NewEngine
    /\ InitDb
    /\ InitHotPath

NextBuffer ==
    \/ \E r \in Readers : GetLock(r)
    \/ \E r \in Readers : GetCopy(r)
    \/ \E r \in Readers : GetReturn(r)
    \/ SwapLock
    \/ SwapWrite
    \/ SwapFlip

SpecBuffer == InitBuffer /\ [][NextBuffer]_vars

\* SpecCopy: one writer and two readers on a double buffer of one of the
\* slice types of ElemTypes; the readers modify what Get gave them.
\* The buffer under update functions that write all or only some elements.
NextSwap ==
    \/ \E r \in Readers : GetLock(r)
    \/ \E r \in Readers : GetCopy(r)
    \/ \E r \in Readers : GetReturn(r)
    \/ SwapLock
    \/ SwapLockSome
    \/ SwapWrite
    \/ SwapFlip

SpecSwap == InitBuffer /\ [][NextSwap]_vars

InitCopy ==
    /\ actors = {}
    /\ registry = Registry({})
    /\ reqCap = [a \in ActorIds |-> 2]
    /\ mailbox = [a \in ActorIds |-> <<>>]
    /\ mbClosed = [a \in ActorIds |-> FALSE]
    /\ started = [a \in ActorIds |-> FALSE]
    /\ stopping = [a \in ActorIds |-> FALSE]
    /\ wg = [a \in ActorIds |-> 0]
    /\ sysCancelled = FALSE
    /\ panicked = FALSE
    /\ accepted = [a \in ActorIds |-> <<>>]
    /\ delivered = [a \in ActorIds |-> <<>>]
    /\ nextId = 1
    /\ th = [t \in Threads |->
               Thread0(IF t \in ActorIds THEN "none" ELSE "idle")]
    /\ stopReturned = {}
    /\ engine = NewEngine
    /\ db \in {[NewDoubleBuffer EXCEPT !.elem = e] : e \in ElemTypes}
    /\ dbt = [t \in Readers \cup {Writer} |-> DbThread0]
    /\ published = <<NewDoubleBuffer.buffers[0]>>
    /\ InitHotPath

NextCopy ==
    \/ \E r \in Readers : GetLock(r)
    \/ \E r \in Readers : GetCopy(r)
    \/ \E r \in Readers : GetAlias(r)
    \/ \E r \in Readers : GetReturn(r)
    \/ \E r \in Readers : CallerWrite(r)
    \/ SwapLock
    \/ SwapWrite
    \/ SwapFlip

SpecCopy == InitCopy /\ [][NextCopy]_vars

\* SpecPipeline: the engine after Engine.Run has started the actors
\* (engine.go:160-164): the components registered by initializeSystem are
\* started and their tasks wait at the select of processLoop.  The mailbox
\* capacity (2024 in engine.go:91) is one of PipelineCaps.
Components == {"processor", "router", "ws"}
PipelineCaps == {1, 2}
PipeThreads == Components \cup {Driver}

InitPipeline ==
    /\ actors = Components
    /\ registry = Registry(Components)
    /\ reqCap \in {[a \in ActorIds |-> c] : c \in PipelineCaps}
    /\ mailbox = [a \in ActorIds |-> <<>>]
    /\ mbClosed = [a \in ActorIds |-> FALSE]
    /\ started = [a \in ActorIds |-> a \in Components]
    /\ stopping = [a \in ActorIds |-> FALSE]
    /\ wg = [a \in ActorIds |-> IF a \in Components THEN 1 ELSE 0]
    /\ sysCancelled = FALSE
    /\ panicked = FALSE
    /\ accepted = [a \in ActorIds |-> <<>>]
    /\ delivered = [a \in ActorIds |-> <<>>]
    /\ nextId = 1
    /\ th = [t \in Threads |->
               Thread0(IF t \in Components THEN "loop"
                       ELSE IF t \in ActorIds THEN "none" ELSE "idle")]
    /\ db = NewFloat64DoubleBuffer
    /\ dbt = [t \in Readers \cup {Writer} |-> DbThread0]
    /\ published = <<NewDoubleBuffer.buffers[0]>>
    /\ stopReturned = {}
    /\ engine = RunningEngine
    /\ InitHotPath

\* The steps of one invocation of the audio callback.
Callback ==
    \/ processInputStream(Driver)
    \/ ProcessBin(Driver)
    \/ SendRawMessage(Driver)
    \/ th[Driver].op = "processInputStream" /\ SendCheck(Driver)
    \/ th[Driver].op = "processInputStream" /\ SendSelect(Driver)
    \/ th[Driver].op = "processInputStream" /\ SendRecheck(Driver)
    \/ CallbackSent(Driver)

NextPipeline ==
    \/ processInputStream(Driver)
    \/ ProcessBin(Driver)
    \/ SendRawMessage(Driver)
    \/ CallbackSent(Driver)
    \/ StopProcessor(Driver)
    \/ SystemClose(Driver)
    \/ EngineStopAll(Driver)
    \/ StopAllNext(Driver)
    \/ StopAllReturn(Driver)
    \/ StopLock(Driver)
    \/ StopWait(Driver)
    \/ \E t \in PipeThreads : SendCheck(t)
    \/ \E t \in PipeThreads : SendSelect(t)
    \/ \E t \in PipeThreads : SendRecheck(t)
    \/ \E a \in Components : processLoopDone(a)
    \/ \E a \in Components : processLoopRecv(a)
    \/ \E a \in Components : processLoopClosed(a)
    \/ ProcessorGet("processor")
    \/ ProcessorCopyFlux("processor")
    \/ ProcessorSend("processor")
    \/ ProcessorSent("processor")
    \/ RouterNext("router")
    \/ WstProcessMessage("ws")

SpecPipeline == InitPipeline /\ [][NextPipeline]_vars

\* The scheduler owes the real-time thread its steps and nothing to the
\* actors' tasks: only the callback's steps are fair.
SpecPipelineFair == SpecPipeline /\ WF_vars(Callback)

\* ------------------------------------------- the pipeline with a slow router

\* The pipeline with mailboxes of capacity one and an audio source that
\* delivers one buffer more: nothing stops the components, so a Send fails
\* only on a full mailbox.
InitFrames ==
    /\ actors = Components
    /\ registry = Registry(Components)
    /\ reqCap = [a \in ActorIds |-> 1]
    /\ mailbox = [a \in ActorIds |-> <<>>]
    /\ mbClosed = [a \in ActorIds |-> FALSE]
    /\ started = [a \in ActorIds |-> a \in Components]
    /\ stopping = [a \in ActorIds |-> FALSE]
    /\ wg = [a \in ActorIds |-> IF a \in Components THEN 1 ELSE 0]
    /\ sysCancelled = FALSE
    /\ panicked = FALSE
    /\ accepted = [a \in ActorIds |-> <<>>]
    /\ delivered = [a \in ActorIds |-> <<>>]
    /\ nextId = 1
    /\ th = [t \in Threads |->
               Thread0(IF t \in Components THEN "loop"
                       ELSE IF t \in ActorIds THEN "none" ELSE "idle")]
    /\ db = NewFloat64DoubleBuffer
    /\ dbt = [t \in Readers \cup {Writer} |-> DbThread0]
    /\ published = <<NewDoubleBuffer.buffers[0]>>
    /\ stopReturned = {}
    /\ engine = [RunningEngine EXCEPT !.frames = MaxFrames + 1]
    /\ InitHotPath

NextFrames ==
    \/ processInputStream(Driver)
    \/ ProcessBin(Driver)
    \/ SendRawMessage(Driver)
    \/ CallbackSent(Driver)
    \/ \E t \in PipeThreads : SendCheck(t)
    \/ \E t \in PipeThreads : SendSelect(t)
    \/ \E t \in PipeThreads : SendRecheck(t)
    \/ \E a \in Components : processLoopRecv(a)
    \/ ProcessorGet("processor")
    \/ ProcessorCopyFlux("processor")
    \/ ProcessorSend("processor")
    \/ ProcessorSent("processor")
    \/ RouterNext("router")
    \/ WstProcessMessage("ws")

SpecFrames == InitFrames /\ [][NextFrames]_vars

\* --------------------------------------------- a router with two targets

\* The targets a router is given here: the endpoint and the plain actor "a",
\* in either order.
RouterTargets == {<<"ws", "a">>, <<"a", "ws">>}

\* The pipeline with a router that forwards to two started actors, the
\* mailboxes of capacity one.
InitRouter ==
    /\ actors = Components \cup {"a"}
    /\ registry = Registry(Components \cup {"a"})
    /\ reqCap = [a \in ActorIds |-> 1]
    /\ mailbox = [a \in ActorIds |-> <<>>]
    /\ mbClosed = [a \in ActorIds |-> FALSE]
    /\ started = [a \in ActorIds |-> TRUE]
    /\ stopping = [a \in ActorIds |-> FALSE]
    /\ wg = [a \in ActorIds |-> 1]
    /\ sysCancelled = FALSE
    /\ panicked = FALSE
    /\ accepted = [a \in ActorIds |-> <<>>]
    /\ delivered = [a \in ActorIds |-> <<>>]
    /\ nextId = 1
    /\ th = [t \in Threads |->
               Thread0(IF t \in ActorIds THEN "loop" ELSE "idle")]
    /\ db = NewFloat64DoubleBuffer
    /\ dbt = [t \in Readers \cup {Writer} |-> DbThread0]
    /\ published = <<NewDoubleBuffer.buffers[0]>>
    /\ stopReturned = {}
    /\ engine \in {[RunningEngine EXCEPT !.targets = ts] : ts \in RouterTargets}
    /\ InitHotPath

NextRouter ==
    \/ processInputStream(Driver)
    \/ ProcessBin(Driver)
    \/ SendRawMessage(Driver)
    \/ CallbackSent(Driver)
    \/ \E t \in PipeThreads : SendCheck(t)
    \/ \E t \in PipeThreads : SendSelect(t)
    \/ \E t \in PipeThreads : SendRecheck(t)
    \/ \E a \in ActorIds : processLoopRecv(a)
    \/ ProcessorGet("processor")
    \/ ProcessorCopyFlux("processor")
    \/ ProcessorSend("processor")
    \/ ProcessorSent("processor")
    \/ RouterNext("router")
    \/ WstProcessMessage("ws")

SpecRouter == InitRouter /\ [][NextRouter]_vars

\* ----------------------------------- LifecycleManager.Shutdown, Engine.Close

\* SpecShutdown: the running engine of InitPipeline with the audio thread
\* (Driver) invoking the callback while the stream is active, and the
\* goroutine Main calling LifecycleManager.Shutdown.

\* PortAudio invokes the callback of a started stream only.
StreamCallback ==
    /\ engine.stream = "active"
    /\ processInputStream(Driver)

\* The steps of an invocation of the callback that is under way.
CallbackStep ==
    \/ ProcessBin(Driver)
    \/ SendRawMessage(Driver)
    \/ SendCheck(Driver)
    \/ SendSelect(Driver)
    \/ SendRecheck(Driver)
    \/ CallbackSent(Driver)

\* A step of Shutdown or Close outside the actor runtime: it changes the
\* engine and nothing else.
EngineStep(t, at, e) ==
    /\ ~panicked
    /\ th[t].pc = "idle"
    /\ engine.who = t
    /\ engine.pc = at
    /\ engine' = e
    /\ UNCHANGED <<actorSide, db, dbt, published, detector, pow2, hotPath>>

\* Shutdown, lifecycle.go:62-68: the state check under lm.mu.
ShutdownLock(t) ==
    /\ engine.pc \in {"none", "returned"}
    /\ EngineStep(t, engine.pc,
                  IF engine.state \in {"ShuttingDown", "Closed"}
                  THEN [engine EXCEPT !.pc = "returned"]
                  ELSE [engine EXCEPT !.state = "ShuttingDown",
                                      !.pc = "lm.cancel"])

\* Shutdown, lifecycle.go:73-75: lm.cancel(), if Start has set it.
ShutdownCancel(t) ==
    /\ engine.state = "ShuttingDown"
    /\ EngineStep(t, "lm.cancel",
                  [engine EXCEPT !.cancelled = @ \/ engine.runs > 0,
                                 !.pc = "lm.done"])

\* startStream returns from <-ctx.Done() (stream.go:61-64), Engine.Run and
\* run() return and the deferred close(lm.done) runs (lifecycle.go:53-59).
RunReturn ==
    /\ ~panicked
    /\ engine.cancelled /\ ~engine.done
    /\ engine' = [engine EXCEPT !.done = TRUE]
    /\ UNCHANGED <<actorSide, db, dbt, published, detector, pow2, hotPath>>

\* Shutdown, lifecycle.go:78-83: <-lm.done if Start has made the channel,
\* then lm.engine.Close().
ShutdownWait(t) ==
    /\ engine.runs = 0 \/ engine.done
    /\ EngineStep(t, "lm.done", [engine EXCEPT !.pc = "Close"])

\* Close, engine.go:171-173: the test of e.closed.
AlreadyClosed_Never(e) == FALSE
AlreadyClosed(e) == e.closed

\* Close, engine.go:168-183: e.closed is tested and set under e.mu; with a
\* stream, stopAudioStream is entered.
CloseLock(t) ==
    /\ engine.runs = 0 \/ engine.done
    /\ EngineStep(t, "Close",
                  IF AlreadyClosed(engine)
                  THEN [engine EXCEPT !.res = "nil", !.pc = "lm.state"]
                  ELSE [engine EXCEPT !.closed = TRUE,
                                      !.errs = <<>>, !.serrs = <<>>,
                                      !.pc = IF engine.stream = "nil"
                                             THEN "StopAll"
                                             ELSE "stream.Stop"])

\* stopAudioStream, stream.go:117-119: stream.Stop() returns once the
\* callback that is under way has returned, and no callback is invoked
\* afterwards; a Stop that fails returns the error, which is appended, and
\* leaves the stream as it was.
StreamStop(t) ==
    /\ \/ Fails("stream.Stop")
       \/ ~(th[Driver].op = "processInputStream" /\ th[Driver].pc # "idle")
    /\ EngineStep(t, "stream.Stop",
                  IF Fails("stream.Stop")
                  THEN [engine EXCEPT !.calls = Append(@, "stream.Stop"),
                                      !.serrs = Append(@, "stop"),
                                      !.pc = "stream.Close"]
                  ELSE [engine EXCEPT !.calls = Append(@, "stream.Stop"),
                                      !.stream = "stopped",
                                      !.pc = "stream.Close"])

\* What stopAudioStream returns to Close (stream.go:127-131) and Close does
\* with it (engine.go:180-182): one error "audio stream" for the errors of
\* Stop and Close together.
StreamErrs(errs, serrs) ==
    IF Len(serrs) > 0 THEN Append(errs, "audio stream") ELSE errs

\* stopAudioStream, stream.go:121-131: stream.Close() is called whatever Stop
\* returned, e.audio.stream = nil, and the errors are returned to Close.
StreamClose(t) ==
    /\ engine.closed
    /\ EngineStep(t, "stream.Close",
                  IF Fails("stream.Close")
                  THEN [engine EXCEPT
                          !.calls = Append(@, "stream.Close"),
                          !.serrs = Append(@, "close"),
                          !.errs = StreamErrs(@, Append(engine.serrs, "close")),
                          !.pc = "StopAll"]
                  ELSE [engine EXCEPT
                          !.calls = Append(@, "stream.Close"),
                          !.stream = "closed",
                          !.errs = StreamErrs(@, engine.serrs),
                          !.pc = "StopAll"])

\* Close, engine.go:186-189: e.system.StopAll().
CloseStopAll(t) ==
    /\ engine.pc = "StopAll" /\ engine.who = t
    /\ EngineStopAll(t)

\* Close, engine.go:190-192: e.system.Close(), StopAll having returned.
CloseSystemClose(t) ==
    /\ engine.pc = "StopAll" /\ engine.who = t
    /\ SystemClose(t)

\* The index in e.closables of the resource closed in turn k (counted from
\* 0) of the loop of engine.go:196, for i := len(e.closables) - 1; i >= 0; i--.
ClosableIndex_Forward(k) == k + 1
ClosableIndex(k) == Len(engine.closables) - k

\* Close, engine.go:196-200: the first turn of the loop over the closables,
\* once StopAll and System.Close have returned.
CloseClosablesBegin(t) ==
    /\ sysCancelled /\ actors = {}
    /\ EngineStep(t, "StopAll", [engine EXCEPT !.pc = "closables", !.k = 0])

\* Close, engine.go:196-200: one turn, e.closables[i].Close().
CloseClosable(t) ==
    /\ engine.k < Len(engine.closables)
    /\ LET c == engine.closables[ClosableIndex(engine.k)]
       IN  EngineStep(t, "closables",
                  [engine EXCEPT
                     !.closedLog = Append(@, c),
                     !.calls = Append(@, c),
                     !.errs = IF Fails(c) THEN Append(@, c) ELSE @,
                     !.k = @ + 1])

\* Close, engine.go:202-205 and device.go:58-71: exitPA terminates PortAudio
\* if it is initialised; a Terminate that fails leaves e.audio.initialized
\* set and its error is appended.
CloseExitPA(t) ==
    /\ engine.k >= Len(engine.closables)
    /\ EngineStep(t, "closables",
                  IF ~engine.initialized
                  THEN [engine EXCEPT !.pc = "Close.return"]
                  ELSE IF Fails("Terminate")
                  THEN [engine EXCEPT !.calls = Append(@, "Terminate"),
                                      !.errs = Append(@, "portaudio"),
                                      !.pc = "Close.return"]
                  ELSE [engine EXCEPT !.calls = Append(@, "Terminate"),
                                      !.initialized = FALSE,
                                      !.pc = "Close.return"])

\* Close, engine.go:207-214: a FatalError if errs is not empty, else nil.
CloseResult_Nil(errs) == "nil"
CloseResult(errs) == IF Len(errs) > 0 THEN "FatalError" ELSE "nil"

\* Close returns to Shutdown (lifecycle.go:83-85), which logs the error.
CloseReturn(t) ==
    /\ engine.closed
    /\ EngineStep(t, "Close.return",
                  [engine EXCEPT !.res = CloseResult(engine.errs),
                                 !.pc = "lm.state"])

\* Shutdown, lifecycle.go:87-89: lm.state = StateClosed.
ShutdownClosed(t) ==
    /\ engine.state = "ShuttingDown"
    /\ EngineStep(t, "lm.state",
                  [engine EXCEPT !.state = "Closed", !.pc = "returned"])

\* The steps of the goroutine that runs Shutdown.
ShutdownStep ==
    \/ ShutdownLock(Main)
    \/ ShutdownCancel(Main)
    \/ ShutdownWait(Main)
    \/ CloseLock(Main)
    \/ StreamStop(Main)
    \/ StreamClose(Main)
    \/ CloseStopAll(Main)
    \/ StopAllNext(Main)
    \/ StopLock(Main)
    \/ StopWait(Main)
    \/ StopAllReturn(Main)
    \/ CloseSystemClose(Main)
    \/ CloseClosablesBegin(Main)
    \/ CloseClosable(Main)
    \/ CloseExitPA(Main)
    \/ CloseReturn(Main)
    \/ ShutdownClosed(Main)

\* The steps of the processing task of component a.
TaskStep(a) ==
    \/ processLoopDone(a)
    \/ processLoopRecv(a)
    \/ processLoopClosed(a)
    \/ SendCheck(a)
    \/ SendSelect(a)
    \/ SendRecheck(a)
    \/ ProcessorGet(a)
    \/ ProcessorCopyFlux(a)
    \/ ProcessorSend(a)
    \/ ProcessorSent(a)
    \/ RouterNext(a)
    \/ WstProcessMessage(a)

NextShutdown ==
    \/ StreamCallback
    \/ ProcessBin(Driver)
    \/ SendRawMessage(Driver)
    \/ CallbackSent(Driver)
    \/ ShutdownLock(Main)
    \/ ShutdownCancel(Main)
    \/ RunReturn
    \/ ShutdownWait(Main)
    \/ CloseLock(Main)
    \/ StreamStop(Main)
    \/ StreamClose(Main)
    \/ CloseStopAll(Main)
    \/ StopAllNext(Main)
    \/ StopLock(Main)
    \/ StopWait(Main)
    \/ StopAllReturn(Main)
    \/ CloseSystemClose(Main)
    \/ CloseClosablesBegin(Main)
    \/ CloseClosable(Main)
    \/ CloseExitPA(Main)
    \/ CloseReturn(Main)
    \/ ShutdownClosed(Main)
    \/ \E t \in Components \cup {Driver} : SendCheck(t)
    \/ \E t \in Components \cup {Driver} : SendSelect(t)
    \/ \E t \in Components \cup {Driver} : SendRecheck(t)
    \/ \E a \in Components : processLoopDone(a)
    \/ \E a \in Components : processLoopRecv(a)
    \/ \E a \in Components : processLoopClosed(a)
    \/ ProcessorGet("processor")
    \/ ProcessorCopyFlux("processor")
    \/ ProcessorSend("processor")
    \/ ProcessorSent("processor")
    \/ RouterNext("router")
    \/ WstProcessMessage("ws")

SpecShutdown == InitPipeline /\ [][NextShutdown]_vars

\* Every goroutine that can take a step eventually takes one: the audio
\* thread finishes the callback it is in, the tasks and the goroutine of
\* Shutdown run.
SpecShutdownFair ==
    /\ SpecShutdown
    /\ WF_vars(CallbackStep)
    /\ WF_vars(ShutdownStep)
    /\ WF_vars(RunReturn)
    /\ \A a \in Components : WF_vars(TaskStep(a))

\* SpecAll: two clients call StartAll and StopAll concurrently on a System
\* that holds the three components, none of them started.
InitAll ==
    /\ actors = Components
    /\ registry = Registry(Components)
    /\ reqCap = [a \in ActorIds |-> 1]
    /\ mailbox = [a \in ActorIds |-> <<>>]
    /\ mbClosed = [a \in ActorIds |-> FALSE]
    /\ started = [a \in ActorIds |-> FALSE]
    /\ stopping = [a \in ActorIds |-> FALSE]
    /\ wg = [a \in ActorIds |-> 0]
    /\ sysCancelled = FALSE
    /\ panicked = FALSE
    /\ accepted = [a \in ActorIds |-> <<>>]
    /\ delivered = [a \in ActorIds |-> <<>>]
    /\ nextId = 1
    /\ th = [t \in Threads |->
               Thread0(IF t \in ActorIds THEN "none" ELSE "idle")]
    /\ stopReturned = {}
    /\ engine = NewEngine
    /\ InitDb
    /\ InitHotPath

NextAll ==
    \/ \E t \in Clients : StartAllBegin(t)
    \/ \E t \in Clients : StartAllNext(t)
    \/ \E t \in Clients : StartLock(t)
    \/ \E t \in Clients : StartSpawn(t)
    \/ \E t \in Clients : StartAllReturn(t)
    \/ \E t \in Clients : StartAllDone(t)
    \/ \E t \in Clients : StopAllBegin(t)
    \/ \E t \in Clients : StopAllNext(t)
    \/ \E t \in Clients : StopLock(t)
    \/ \E t \in Clients : StopWait(t)
    \/ \E t \in Clients : StopAllReturn(t)
    \/ \E a \in Components : processLoopDone(a)
    \/ \E a \in Components : processLoopClosed(a)

SpecAll == InitAll /\ [][NextAll]_vars

\* ------------------------------------------ Engine.Run, Engine.startStream

\* The engine once Initialize and LifecycleManager.Start have run
\* (engine.go:39-158, lifecycle.go:37-51): PortAudio is initialised, the
\* resources and the components are registered, no actor is started, there
\* is no stream, and the goroutine of run() is about to call Engine.Run.
InitializedEngine ==
    [NewEngine EXCEPT !.state = "Running", !.initialized = TRUE,
                      !.closables = Closables, !.runs = 1]

\* The calls of startStream that can return an error (stream.go:42-57).
StartFailable == {"OpenStream", "stream.Start"}

\* Run, engine.go:161: e.system.StartAll() is entered.
RunStartAll(t) ==
    /\ engine.runs > 0 /\ engine.stream = "nil"
    /\ th[t].res = "none"
    /\ StartAllBegin(t)

\* Run, engine.go:161-164: startStream is called if StartAll returned nil.
RunOpensStream_Always(res) == TRUE
RunOpensStream(res) == res = "nil"

\* A step of the goroutine of Run that changes its own position and the
\* engine, nothing else.
RunStep(t, at, r, e) ==
    /\ ~panicked
    /\ th[t].pc = at
    /\ Set(t, r)
    /\ engine' = e
    /\ UNCHANGED <<actors, registry, reqCap, actorVars, sysCancelled, panicked,
                   accepted, delivered, nextId, stopReturned>>
    /\ UNCHANGED <<db, dbt, published, detector, pow2, hotPath>>

\* Run, engine.go:161-164: the test of StartAll's result.
RunCheck(t) ==
    /\ th[t].op = "StartAll"
    /\ RunStep(t, "StartAll_ret",
               IF RunOpensStream(th[t].res)
               THEN [th[t] EXCEPT !.pc = "OpenStream", !.op = "startStream"]
               ELSE [th[t] EXCEPT !.pc = "Run_ret", !.op = "Run",
                                  !.res = "StartAllError"],
               engine)

\* startStream, stream.go:16-49: nothing to do with a stream in place; else
\* OpenStream binds the callback and the stream is stored, or its error is
\* returned.
OpenStream(t) ==
    /\ th[t].op = "startStream"
    /\ RunStep(t, "OpenStream",
               IF engine.stream # "nil"
               THEN [th[t] EXCEPT !.pc = "Run_ret", !.op = "Run", !.res = "nil"]
               ELSE IF Fails("OpenStream")
               THEN [th[t] EXCEPT !.pc = "Run_ret", !.op = "Run",
                                  !.res = "FatalError"]
               ELSE [th[t] EXCEPT !.pc = "stream.Start"],
               IF engine.stream = "nil" /\ ~Fails("OpenStream")
               THEN [engine EXCEPT !.stream = "stopped"]
               ELSE engine)

\* startStream, stream.go:51-61: stream.Start(); from now on PortAudio
\* invokes the callback, and startStream waits at <-ctx.Done().  A Start
\* that fails resets e.audio.stream to nil.
StreamStart(t) ==
    /\ engine.stream = "stopped"
    /\ RunStep(t, "stream.Start",
               IF Fails("stream.Start")
               THEN [th[t] EXCEPT !.pc = "Run_ret", !.op = "Run",
                                  !.res = "FatalError"]
               ELSE [th[t] EXCEPT !.pc = "ctx.Done"],
               IF Fails("stream.Start")
               THEN [engine EXCEPT !.stream = "nil"]
               ELSE [engine EXCEPT !.stream = "active"])

\* run(), lifecycle.go:54-58: Run has returned and the deferred
\* close(lm.done) runs.
RunExit(t) ==
    /\ ~engine.done
    /\ RunStep(t, "Run_ret", [th[t] EXCEPT !.pc = "exited"],
               [engine EXCEPT !.done = TRUE])

\* SpecRun: the goroutine of run() calls Engine.Run on the initialised
\* engine while a client may stop the processor actor, the one way a Start
\* fails (actor.go:76-78); the context is not cancelled, so a Run that
\* started the stream stays at <-ctx.Done() with the callback and the
\* components at work.
InitRun ==
    /\ actors = Components
    /\ registry = Registry(Components)
    /\ reqCap \in {[a \in ActorIds |-> c] : c \in PipelineCaps}
    /\ mailbox = [a \in ActorIds |-> <<>>]
    /\ mbClosed = [a \in ActorIds |-> FALSE]
    /\ started = [a \in ActorIds |-> FALSE]
    /\ stopping = [a \in ActorIds |-> FALSE]
    /\ wg = [a \in ActorIds |-> 0]
    /\ sysCancelled = FALSE
    /\ panicked = FALSE
    /\ accepted = [a \in ActorIds |-> <<>>]
    /\ delivered = [a \in ActorIds |-> <<>>]
    /\ nextId = 1
    /\ th = [t \in Threads |->
               Thread0(IF t \in ActorIds THEN "none" ELSE "idle")]
    /\ db = NewFloat64DoubleBuffer
    /\ dbt = [t \in Readers \cup {Writer} |-> DbThread0]
    /\ published = <<NewDoubleBuffer.buffers[0]>>
    /\ stopReturned = {}
    /\ engine \in {[InitializedEngine EXCEPT !.faults = f] :
                       f \in SUBSET StartFailable}
    /\ InitHotPath

NextRun ==
    \/ RunStartAll(Runner)
    \/ StartAllNext(Runner)
    \/ StartLock(Runner)
    \/ StartSpawn(Runner)
    \/ StartAllReturn(Runner)
    \/ RunCheck(Runner)
    \/ OpenStream(Runner)
    \/ StreamStart(Runner)
    \/ RunExit(Runner)
    \/ StopProcessor("c1")
    \/ StopLock("c1")
    \/ StopWait("c1")
    \/ StreamCallback
    \/ ProcessBin(Driver)
    \/ SendRawMessage(Driver)
    \/ CallbackSent(Driver)
    \/ \E t \in PipeThreads : SendCheck(t)
    \/ \E t \in PipeThreads : SendSelect(t)
    \/ \E t \in PipeThreads : SendRecheck(t)
    \/ \E a \in Components : processLoopRecv(a)
    \/ \E a \in Components : processLoopClosed(a)
    \/ ProcessorGet("processor")
    \/ ProcessorCopyFlux("processor")
    \/ ProcessorSend("processor")
    \/ ProcessorSent("processor")
    \/ RouterNext("router")
    \/ WstProcessMessage("ws")

SpecRun == InitRun /\ [][NextRun]_vars

\* SpecClose: Shutdown and Close of a running engine whose audio thread is
\* quiet, in every environment of Close: each set of its failable calls
\* returns an error.
InitClose ==
    /\ actors = Components
    /\ registry = Registry(Components)
    /\ reqCap \in {[a \in ActorIds |-> c] : c \in PipelineCaps}
    /\ mailbox = [a \in ActorIds |-> <<>>]
    /\ mbClosed = [a \in ActorIds |-> FALSE]
    /\ started = [a \in ActorIds |-> a \in Components]
    /\ stopping = [a \in ActorIds |-> FALSE]
    /\ wg = [a \in ActorIds |-> IF a \in Components THEN 1 ELSE 0]
    /\ sysCancelled = FALSE
    /\ panicked = FALSE
    /\ accepted = [a \in ActorIds |-> <<>>]
    /\ delivered = [a \in ActorIds |-> <<>>]
    /\ nextId = 1
    /\ th = [t \in Threads |->
               Thread0(IF t \in Components THEN "loop"
                       ELSE IF t \in ActorIds THEN "none" ELSE "idle")]
    /\ db = NewFloat64DoubleBuffer
    /\ dbt = [t \in Readers \cup {Writer} |-> DbThread0]
    /\ published = <<NewDoubleBuffer.buffers[0]>>
    /\ stopReturned = {}
    /\ engine \in {[RunningEngine EXCEPT !.faults = f] : f \in SUBSET Failable}
    /\ InitHotPath

NextClose ==
    \/ ShutdownLock(Main)
    \/ ShutdownCancel(Main)
    \/ RunReturn
    \/ ShutdownWait(Main)
    \/ CloseLock(Main)
    \/ StreamStop(Main)
    \/ StreamClose(Main)
    \/ CloseStopAll(Main)
    \/ StopAllNext(Main)
    \/ StopLock(Main)
    \/ StopWait(Main)
    \/ StopAllReturn(Main)
    \/ CloseSystemClose(Main)
    \/ CloseClosablesBegin(Main)
    \/ CloseClosable(Main)
    \/ CloseExitPA(Main)
    \/ CloseReturn(Main)
    \/ ShutdownClosed(Main)
    \/ \E a \in Components : processLoopDone(a)
    \/ \E a \in Components : processLoopClosed(a)

SpecClose == InitClose /\ [][NextClose]_vars

\* ------------------------- LifecycleManager.Start, the callers of Close

\* Start, lifecycle.go:41-43: the one state Start accepts.
StartAllowed_Always(state) == TRUE
StartAllowed(state) == state = "Initialized"

\* LifecycleManager.Start (lifecycle.go:37-51), the whole of it under lm.mu:
\* an error for any state but Initialized; else the state is Running, a
\* fresh context and done channel are made and the goroutine of run() is
\* spawned.  engine.runs, a history, counts the goroutines spawned.
LmStart(t) ==
    /\ ~panicked
    /\ th[t].pc = "idle"
    /\ IF StartAllowed(engine.state)
       THEN /\ engine' = [engine EXCEPT !.state = "Running",
                                        !.cancelled = FALSE, !.done = FALSE,
                                        !.runs = @ + 1]
            /\ Set(t, [th[t] EXCEPT !.op = "lm.Start", !.res = "nil"])
       ELSE /\ engine' = engine
            /\ Set(t, [th[t] EXCEPT !.op = "lm.Start",
                                    !.res = "invalid state"])
    /\ UNCHANGED <<actors, registry, reqCap, actorVars, sysCancelled, panicked,
                   accepted, delivered, nextId, stopReturned>>
    /\ UNCHANGED <<db, dbt, published, detector, pow2, hotPath>>

\* startStream, stream.go:61-64: <-ctx.Done() returns once the context is
\* cancelled, and startStream and Run return nil.
StreamCtxDone(t) ==
    /\ engine.cancelled
    /\ RunStep(t, "ctx.Done",
               [th[t] EXCEPT !.pc = "Run_ret", !.op = "Run", !.res = "nil"],
               engine)

\* Shutdown (lifecycle.go:62-66) called by a second goroutine that finds the
\* state ShuttingDown or Closed: it returns at once.  The goroutine that
\* finds another state is the one that goes on, ShutdownLock.
ShutdownCall(t) ==
    /\ ~panicked
    /\ th[t].pc = "idle"
    /\ engine.state \in {"ShuttingDown", "Closed"}
    /\ Set(t, [th[t] EXCEPT !.op = "Shutdown", !.res = "returned"])
    /\ UNCHANGED <<actors, registry, reqCap, actorVars, sysCancelled, panicked,
                   accepted, delivered, nextId, stopReturned>>
    /\ UNCHANGED nonActor

\* The positions inside Engine.Close, where e.mu is held (engine.go:168-169).
CloseBody ==
    {"stream.Stop", "stream.Close", "StopAll", "closables", "Close.return"}

\* Engine.Close called by a goroutine other than that of Shutdown
\* (engine.go:167-183): it gets e.mu when no call of Close is under way,
\* returns nil if e.closed, and else goes through Close itself;
\* engine.who is the goroutine inside Close and engine.lm keeps the position
\* of the goroutine of Shutdown meanwhile.
CloseCall(t) ==
    /\ ~panicked
    /\ th[t].pc = "idle"
    /\ engine.who = Main /\ engine.pc \notin CloseBody
    /\ IF AlreadyClosed(engine)
       THEN /\ engine' = engine
            /\ Set(t, [th[t] EXCEPT !.op = "Close", !.res = "nil"])
       ELSE /\ engine' = [engine EXCEPT !.closed = TRUE,
                                        !.errs = <<>>, !.serrs = <<>>,
                                        !.who = t, !.lm = engine.pc,
                                        !.pc = IF engine.stream = "nil"
                                               THEN "StopAll"
                                               ELSE "stream.Stop"]
            /\ Set(t, [th[t] EXCEPT !.op = "Close", !.res = "pending"])
    /\ UNCHANGED <<actors, registry, reqCap, actorVars, sysCancelled, panicked,
                   accepted, delivered, nextId, stopReturned>>
    /\ UNCHANGED <<db, dbt, published, detector, pow2, hotPath>>

\* Close returns to that caller (engine.go:207-214) and e.mu is released.
CloseCallReturn(t) ==
    /\ ~panicked
    /\ th[t].pc = "idle"
    /\ t # Main /\ engine.who = t /\ engine.pc = "Close.return"
    /\ engine' = [engine EXCEPT !.who = Main, !.pc = engine.lm,
                                !.lm = "none"]
    /\ Set(t, [th[t] EXCEPT !.op = "Close",
                            !.res = CloseResult(engine.errs)])
    /\ UNCHANGED <<actors, registry, reqCap, actorVars, sysCancelled, panicked,
                   accepted, delivered, nextId, stopReturned>>
    /\ UNCHANGED <<db, dbt, published, detector, pow2, hotPath>>

\* The calls that can fail in SpecLifecycle.
LifecycleFaults == {"OpenStream", "Terminate"}

\* The goroutines that call Engine.Close: Shutdown's and the clients.
Closers == Clients \cup {Main}

\* SpecLifecycle: the engine as NewLifecycleManager leaves it
\* (lifecycle.go:30-35), initialised and not started.  The clients call
\* Start, Shutdown and Engine.Close at any time, Main calls Shutdown, and
\* the goroutine that Start spawns runs Engine.Run; the audio thread is
\* quiet.
InitLifecycle ==
    /\ actors = Components
    /\ registry = Registry(Components)
    /\ reqCap = [a \in ActorIds |-> 1]
    /\ mailbox = [a \in ActorIds |-> <<>>]
    /\ mbClosed = [a \in ActorIds |-> FALSE]
    /\ started = [a \in ActorIds |-> FALSE]
    /\ stopping = [a \in ActorIds |-> FALSE]
    /\ wg = [a \in ActorIds |-> 0]
    /\ sysCancelled = FALSE
    /\ panicked = FALSE
    /\ accepted = [a \in ActorIds |-> <<>>]
    /\ delivered = [a \in ActorIds |-> <<>>]
    /\ nextId = 1
    /\ th = [t \in Threads |->
               Thread0(IF t \in ActorIds THEN "none" ELSE "idle")]
    /\ db = NewFloat64DoubleBuffer
    /\ dbt = [t \in Readers \cup {Writer} |-> DbThread0]
    /\ published = <<NewDoubleBuffer.buffers[0]>>
    /\ stopReturned = {}
    /\ engine \in {[NewEngine EXCEPT !.initialized = TRUE,
                                     !.closables = Closables,
                                     !.faults = f] :
                       f \in SUBSET LifecycleFaults}
    /\ InitHotPath

NextLifecycle ==
    \/ \E t \in Clients : LmStart(t)
    \/ RunStartAll(Runner)
    \/ StartAllNext(Runner)
    \/ StartLock(Runner)
    \/ StartSpawn(Runner)
    \/ StartAllReturn(Runner)
    \/ RunCheck(Runner)
    \/ OpenStream(Runner)
    \/ StreamStart(Runner)
    \/ StreamCtxDone(Runner)
    \/ RunExit(Runner)
    \/ ShutdownLock(Main)
    \/ ShutdownCancel(Main)
    \/ ShutdownWait(Main)
    \/ CloseLock(Main)
    \/ \E t \in Clients : ShutdownCall(t)
    \/ \E t \in Clients : CloseCall(t)
    \/ \E t \in Clients : CloseCallReturn(t)
    \/ \E t \in Closers : StreamStop(t)
    \/ \E t \in Closers : StreamClose(t)
    \/ \E t \in Closers : CloseStopAll(t)
    \/ \E t \in Closers : StopAllNext(t)
    \/ \E t \in Closers : StopLock(t)
    \/ \E t \in Closers : StopWait(t)
    \/ \E t \in Closers : StopAllReturn(t)
    \/ \E t \in Closers : CloseSystemClose(t)
    \/ \E t \in Closers : CloseClosablesBegin(t)
    \/ \E t \in Closers : CloseClosable(t)
    \/ \E t \in Closers : CloseExitPA(t)
    \/ CloseReturn(Main)
    \/ ShutdownClosed(Main)
    \/ \E a \in Components : processLoopDone(a)
    \/ \E a \in Components : processLoopClosed(a)

SpecLifecycle == InitLifecycle /\ [][NextLifecycle]_vars

\* ------------------------------------------------- the calls of bitint

InitPow2 ==
    /\ actors = {}
    /\ registry = Registry({})
    /\ reqCap = [a \in ActorIds |-> 2]
    /\ mailbox = [a \in ActorIds |-> <<>>]
    /\ mbClosed = [a \in ActorIds |-> FALSE]
    /\ started = [a \in ActorIds |-> FALSE]
    /\ stopping = [a \in ActorIds |-> FALSE]
    /\ wg = [a \in ActorIds |-> 0]
    /\ sysCancelled = FALSE
    /\ panicked = FALSE
    /\ accepted = [a \in ActorIds |-> <<>>]
    /\ delivered = [a \in ActorIds |-> <<>>]
    /\ nextId = 1
    /\ th = [t \in Threads |->
               Thread0(IF t \in ActorIds THEN "none" ELSE "idle")]
    /\ stopReturned = {}
    /\ engine = NewEngine
    /\ InitDb
    /\ detector = NewBPMDetector
    /\ pow2 \in Calls
    /\ frameCount = 0
    /\ fftProc = NewFFTProcessor
    /\ rawHeap = <<>>
    /\ rawPool = {}
    /\ fftHeap = <<>>
    /\ fftPool = {}
    /\ fftOut = <<>>
    /\ wsSent = <<>>
    /\ rawAcquired = 0
    /\ rawReleased = [t \in Threads |-> 0]

NextPow2 ==
    \/ CallNextPowerOfTwo
    \/ CallNextPowerOfTwo32
    \/ CallNextPowerOfTwo64
    \/ CallAgainNextPowerOfTwo
    \/ CallAgainNextPowerOfTwo32
    \/ CallAgainNextPowerOfTwo64

SpecPow2 == InitPow2 /\ [][NextPow2]_vars

\* ------------------------------------- BPMDetector under concurrent calls

\* One goroutine calls ProcessFlux again and again while the goroutines of
\* BpmReaders call GetBPM.
NextBpm ==
    \/ ProcessFluxLock
    \/ SetCurrentBPM
    \/ SetConfidence
    \/ ProcessFluxUnlock
    \/ \E r \in BpmReaders : GetBPMRLock(r)
    \/ \E r \in BpmReaders : GetBPMCurrentBPM(r)
    \/ \E r \in BpmReaders : GetBPMConfidence(r)
    \/ \E r \in BpmReaders : GetBPMReturn(r)

SpecBpm == InitBuffer /\ [][NextBpm]_vars

\* ------------------------------------------------ BPMDetector.calculateBPM

\* The float64 numbers of the detector are held in fixed point: a time and
\* an interval in milliseconds, a tempo in hundredths of a beat per minute,
\* an error and a weight in thousandths, a score in 1/100000 and a
\* confidence in hundredths; a division drops what is below the unit.

\* len(bd.onsetTimes), part_018:13 and 22, 1024 in the code.
OnsetTimesSize == 5

\* timeInSeconds (part_018:94) of the calls of ProcessFlux that find a peak
\* at part_018:93; frameCount is any number, so the calls come in any order.
OnsetMillis ==
    {0, 250, 500, 750, 1000, 1333, 1500, 1666, 2000, 2500, 12000, 12500}

\* part_018:97: no onset within 100 ms of the last one.
NewOnset(times, t) == Len(times) = 0 \/ t - times[Len(times)] > 100

\* part_018:98-105: the time is stored, in the last place of a full buffer
\* whose content is shifted left by one.
RecordOnset(times, t) ==
    IF Len(times) < OnsetTimesSize THEN Append(times, t)
    ELSE Append(Tail(times), t)

\* part_018:107-121: the onsets of the last 10 seconds are kept.
RecentOnsets(times, t) ==
    LET valid == SelectSeq(times, LAMBDA x : x > t - 10000)
    IN  IF Len(valid) < Len(times) THEN valid ELSE times

\* ProcessFlux, part_018:36-121, for a flux that is a peak at the time t:
\* bd.mu is taken, the onset is recorded and calculateBPM is called if four
\* onsets or more are held (part_018:123); else ProcessFlux returns and the
\* deferred Unlock runs.  A flux that is no peak touches bd.onsetBuffer
\* alone.
ProcessFluxOnset ==
    /\ detector.pc = "idle"
    /\ BpmCanLock
    /\ \E t \in OnsetMillis :
       \E kept \in {IF NewOnset(detector.onsetTimes, t)
                     THEN RecentOnsets(RecordOnset(detector.onsetTimes, t), t)
                     ELSE detector.onsetTimes} :
       \E calls \in {NewOnset(detector.onsetTimes, t) /\ Len(kept) >= 4} :
          detector' = [detector EXCEPT
                         !.onsetTimes = kept,
                         !.writer = calls,
                         !.pc = IF calls THEN "calculateBPM" ELSE "idle"]
    /\ BpmStep

\* part_018:138-144: the intervals between consecutive onsets that lie
\* between 0.2 and 2 seconds.
Intervals(times) ==
    SelectSeq([i \in 1..(Len(times) - 1) |-> times[i + 1] - times[i]],
              LAMBDA d : d > 200 /\ d < 2000)

\* part_018:157: int(bd.intervals[i] * 200).
Bin(interval) == (interval * 200) \div 1000

\* part_018:151-159: the histogram, the number of intervals of each bin.
HistogramBins(ivs) ==
    [b \in {Bin(ivs[i]) : i \in DOMAIN ivs} |->
        Cardinality({i \in DOMAIN ivs : Bin(ivs[i]) = b})]

\* What sort.Slice can leave for a descending order of the weights w
\* (part_018:168-170, 309-311): the sort is not stable and the order it
\* starts from is that of a map, so the elements of equal weight come in any
\* order.  The result lists the elements of I.
RECURSIVE Descending(_, _)
Descending(w, I) ==
    IF I = {} THEN {<<>>}
    ELSE UNION {{<<i>> \o r : r \in Descending(w, I \ {i})} :
                   i \in {i \in I : \A j \in I : w[j] <= w[i]}}

\* part_018:177-180: 60.0 / (float64(bin) / 200.0).
BaseBPM(bin) == 1200000 \div bin

\* part_018:178-200: the tempo of a bin and the related tempos.
Related(bin) ==
    IF bin > 0
    THEN LET b == BaseBPM(bin)
         IN  <<b>>
             \o (IF b > 13000 /\ (b < 16000 \/ b > 18000)
                 THEN <<b \div 2>> ELSE <<>>)
             \o (IF b < 8000 THEN <<b * 2>> ELSE <<>>)
             \o (IF b >= 8000 /\ b <= 9000 /\ b * 2 >= 16000 /\ b * 2 <= 18000
                 THEN <<b * 2>> ELSE <<>>)
    ELSE <<>>

\* part_018:174-201: the candidates of the first k bins of binCounts.
RECURSIVE RelatedOf(_, _)
RelatedOf(binCounts, k) ==
    IF k = 0 THEN <<>>
    ELSE RelatedOf(binCounts, k - 1) \o Related(binCounts[k])

RECURSIVE SumSeq(_)
SumSeq(q) == IF q = <<>> THEN 0 ELSE Head(q) + SumSeq(Tail(q))

\* part_018:204-209: 60.0 / avgInterval.
RawBPM(ivs) == (6000000 * Len(ivs)) \div SumSeq(ivs)

\* part_018:214 and 296: math.Round(x * 2) / 2 for x >= 0, the nearest
\* multiple of one half, a tie away from zero.
RoundHalfBPM_None(c) == c
RoundHalfBPM(c) == (((2 * c + 50) \div 100) * 100) \div 2

\* part_018:222-224: a candidate outside 60..200 is skipped.
InTempoRange_Always(c) == TRUE
InTempoRange(c) == ~(c < 6000 \/ c > 20000)

\* part_018:238.
PossibleGrids == {25, 33, 50, 100, 200}

\* part_018:239-250: the least relative error of the interval against the
\* grid positions of the expected interval, which is in 1/100 ms here.
BestError(interval, expected) ==
    Min({(Abs(interval * 100 - (expected * g) \div 100) * 1000)
            \div ((expected * g) \div 100) : g \in PossibleGrids})

\* part_018:228-261: the alignment score, the mean of the weights.
AlignmentScore(c, ivs) ==
    SumSeq([i \in DOMAIN ivs |->
              1000000 \div (1000 + 10 * BestError(ivs[i], 600000000 \div c))])
        \div Len(ivs)

\* part_018:264-271, in tenths.
RangeBonus(c) ==
    IF c >= 9000 /\ c <= 11000 THEN 13
    ELSE IF c >= 16000 /\ c <= 18000 THEN 14
    ELSE IF c >= 12000 /\ c <= 14000 THEN 12
    ELSE 10

\* part_018:274-280, in tenths.
StabilityBonus(c, current) ==
    IF current > 0 /\ Abs(c - current) * 100 < 5 * current THEN 12 ELSE 10

\* part_018:221-291: the candidates in range with their scores.
ScoreAll(cands, ivs, current) ==
    LET inRange == SelectSeq(cands, InTempoRange)
    IN  [i \in DOMAIN inRange |->
           [bpm |-> inRange[i],
            score |-> AlignmentScore(inRange[i], ivs) * RangeBonus(inRange[i])
                         * StabilityBonus(inRange[i], current)]]

\* part_018:294-300: uniqueCandidates once the first k entries of the
\* scored candidates were visited.
RECURSIVE UniqueCandidates(_, _)
UniqueCandidates(scored, k) ==
    IF k = 0 THEN [x \in {} |-> scored]
    ELSE LET m == UniqueCandidates(scored, k - 1)
             roundedBPM == RoundHalfBPM(scored[k].bpm)
         IN  IF roundedBPM \notin DOMAIN m
                \/ scored[k].score > m[roundedBPM].score
             THEN [x \in DOMAIN m \cup {roundedBPM} |->
                     IF x = roundedBPM THEN scored[k] ELSE m[x]]
             ELSE m

\* The values of a map, by ascending key.
RECURSIVE Values(_)
Values(m) ==
    IF DOMAIN m = {} THEN <<>>
    ELSE <<m[Min(DOMAIN m)]>>
         \o Values([x \in DOMAIN m \ {Min(DOMAIN m)} |-> m[x]])

\* part_018:293-306: the scored candidates without the duplicates.
Deduplicated_Not(scored) == scored
Deduplicated(scored) == Values(UniqueCandidates(scored, Len(scored)))

\* math.Sqrt, down to the unit.
Sqrt(x) == CHOOSE r \in 0..2100 : r * r <= x /\ (r + 1) * (r + 1) > x

\* part_018:317-327: the confidence from the standard deviation of the
\* intervals relative to their mean, in thousandths.
ConfidenceScore(ivs) ==
    LET n == Len(ivs)
        sum == SumSeq(ivs)
        stdDev == Sqrt(SumSeq([i \in DOMAIN ivs |->
                                 (ivs[i] * n - sum) * (ivs[i] * n - sum)])
                          \div (n * n * n))
    IN  Max({100, Min({1000, 1000000 \div (1000 + (5000 * stdDev * n)
                                                     \div sum)})})

\* calculateBPM (part_018:131-337) and the return of ProcessFlux with the
\* deferred Unlock: nothing changes with fewer than three intervals; else
\* the candidates of the three most common bins and of the mean interval
\* are rounded, scored, deduplicated and sorted, and the first of them, if
\* there is one, is stored with its confidence.
CalculateBPM ==
    /\ detector.pc = "calculateBPM"
    /\ \E ivs \in {Intervals(detector.onsetTimes)} :
         IF Len(detector.onsetTimes) < 4 \/ Len(ivs) < 3
         THEN detector' = [detector EXCEPT !.writer = FALSE, !.pc = "idle"]
         ELSE \E h \in {HistogramBins(ivs)} :
              \E binCounts \in Descending(h, DOMAIN h) :
              \E raw \in {Append(RelatedOf(binCounts, Min({Len(binCounts), 3})),
                                 RawBPM(ivs))} :
              \E all \in {ScoreAll([i \in DOMAIN raw |-> RoundHalfBPM(raw[i])],
                                    ivs, detector.currentBPM)} :
              \E kept \in {Deduplicated(all)} :
              \E order \in Descending([i \in DOMAIN kept |-> kept[i].score],
                                      DOMAIN kept) :
              \E scored \in {[i \in DOMAIN kept |-> kept[order[i]]]} :
                 detector' =
                    [detector EXCEPT
                       !.appended = all,
                       !.scored = scored,
                       !.currentBPM =
                          IF Len(scored) > 0 THEN scored[1].bpm ELSE @,
                       !.confidence =
                          IF Len(scored) > 0
                          THEN (ConfidenceScore(ivs) * scored[1].score)
                                  \div 1000000
                          ELSE @,
                       !.writer = FALSE,
                       !.pc = "idle"]
    /\ BpmStep

\* SpecTempo: ProcessFlux is called with peaks at any of the times of
\* OnsetMillis.
NextTempo ==
    \/ ProcessFluxOnset
    \/ CalculateBPM

SpecTempo == InitBuffer /\ [][NextTempo]_vars

\* ------------------------------------------------------ claims, SpecActor

IsPrefix(p, q) == Len(p) <= Len(q) /\ SubSeq(q, 1, Len(p)) = p

FromSender(seq, s) == SelectSeq(seq, LAMBDA m : m.from = s)

\* C3: in every reachable state no mailbox holds more messages than the
\* capacity its actor was created with, a requested capacity <= 0 counting
\* as 100, under every interleaving of Send, SendNonBlocking, Start, Stop and
\* the processing task.
C3_MailboxBound ==
    \A a \in ActorIds :
        Len(mailbox[a]) <= (IF reqCap[a] <= 0 THEN 100 ELSE reqCap[a])

\* A send that found the mailbox filled to its capacity of 2.
C3_Witness ==
    \E t \in Clients :
        /\ th[t].pc = "idle" /\ th[t].res = "ErrMailboxFull"
        /\ reqCap["a"] = 2 /\ Len(mailbox["a"]) = 2

\* C4: a SendNonBlocking whose select finds the actor started, not stopping
\* and its mailbox full returns ErrMailboxFull in that very step and leaves
\* every mailbox as it was.
C4_TrySendFull ==
    [][\A t \in Clients :
          ( /\ th[t].pc = "SNB_select" /\ th'[t].pc # "SNB_select"
            /\ started[th[t].a] /\ ~stopping[th[t].a]
            /\ Len(mailbox[th[t].a]) = cap(th[t].a) )
          => (th'[t].res = "ErrMailboxFull" /\ mailbox' = mailbox)]_vars

\* A SendNonBlocking has returned ErrMailboxFull from a full mailbox of a
\* started actor that is not stopping.
C4_Witness ==
    \E t \in Clients :
        /\ th[t].pc = "idle" /\ th[t].op = "SendNonBlocking"
        /\ th[t].res = "ErrMailboxFull"
        /\ started["a"] /\ ~stopping["a"]
        /\ Len(mailbox["a"]) = cap("a")

\* C7: per actor and sender, the messages handed to the processor are a
\* prefix of the messages of that sender accepted into the mailbox, in the
\* order of acceptance: none is delivered twice, none overtakes another.
C7_Fifo ==
    \A a \in ActorIds : \A s \in Threads :
        IsPrefix(FromSender(delivered[a], s), FromSender(accepted[a], s))

\* Two messages of one sender were queued together and both delivered.
C7_Witness ==
    \E s \in Clients :
        /\ Len(FromSender(delivered["a"], s)) >= 2
        /\ reqCap["a"] # 1

\* C9: when a Stop that found the actor started (its task spawned) returns
\* and the cancellation token is not cancelled, the mailbox is empty and
\* every accepted message has been passed to the processor.
C9_StopDrains ==
    [][\A t \in Clients :
          ( /\ th[t].pc = "Stop_wait" /\ th'[t].pc # "Stop_wait"
            /\ ~sysCancelled
            /\ th[th[t].a].pc # "none" )
          => ( /\ mailbox'[th[t].a] = <<>>
               /\ delivered'[th[t].a] = accepted'[th[t].a] )]_vars

\* A Stop that found two messages in the mailbox has returned after they
\* were delivered.
C9_Witness ==
    \E t \in Clients :
        /\ th[t].pc = "idle" /\ th[t].op = "Stop" /\ th[t].snap >= 2
        /\ ~sysCancelled
        /\ mailbox["a"] = <<>> /\ delivered["a"] = accepted["a"]

\* C10: when StopAll returns, every message that had been accepted before
\* it began has been passed to the processor (the actor's task having been
\* spawned).
C10_StopAllDrains ==
    [][\A t \in Clients :
          ( /\ th[t].pc = "StopAll_loop" /\ th'[t].pc = "idle"
            /\ th["a"].pc # "none" )
          => Len(delivered'["a"]) >= th[t].snap]_vars

\* C11: once a call of Stop on an actor has returned, the actor's processing
\* task has ended (or was never spawned) and the processor function is not
\* invoked again.
C11_StopJoins ==
    [][\A a \in ActorIds :
          a \in stopReturned' =>
              /\ th'[a].pc \in {"none", "done"}
              /\ a \in stopReturned => delivered'[a] = delivered[a]]_vars

\* C12: a Send or SendNonBlocking whose state check runs after a Stop on the
\* actor has returned (every call entered after that return is one) returns
\* ErrActorClosed in that step and enqueues nothing.
C12_ClosedRejects ==
    [][\A t \in Clients :
          ( /\ th[t].pc \in {"Send_check", "SNB_check"}
            /\ th'[t] # th[t]
            /\ th[t].a \in stopReturned )
          => ( /\ th'[t].pc = "idle" /\ th'[t].res = "ErrActorClosed"
               /\ mailbox' = mailbox /\ accepted' = accepted )]_vars

\* After a Stop returned on the started actor, a Send and a SendNonBlocking
\* were both rejected with ErrActorClosed.
C12_Witness ==
    /\ "a" \in stopReturned /\ started["a"]
    /\ \E t, u \in Clients :
          /\ th[t].pc = "idle" /\ th[t].op = "Send"
          /\ th[t].res = "ErrActorClosed"
          /\ th[u].pc = "idle" /\ th[u].op = "SendNonBlocking"
          /\ th[u].res = "ErrActorClosed"

\* C13: stopping is entered from Started only, and a request that would leave
\* the order Created -> Started -> Stopping -> Stopped (Start on a stopping or
\* stopped actor, Stop on an actor never started) returns ErrActorClosed and
\* changes nothing of the actor.
C13_LifecycleOrder ==
    [][/\ \A a \in ActorIds : (stopping'[a] /\ ~stopping[a]) => started[a]
       /\ \A t \in Clients :
             ( /\ th'[t] # th[t]
               /\ \/ th[t].pc = "Start_lock" /\ stopping[th[t].a]
                  \/ th[t].pc = "Stop_lock" /\ ~started[th[t].a] )
             => ( /\ th'[t].pc = "idle" /\ th'[t].res = "ErrActorClosed"
                  /\ actorVars' = actorVars )]_vars

\* C14: a Stop that finds the actor stopping or stopped returns nil in that
\* step and leaves the actor's flags, its mailbox and its task counter as
\* they were; the mailbox is closed only by the Stop that sets stopping.
C14_StopIdempotent ==
    [][/\ \A t \in Clients :
             ( /\ th[t].pc = "Stop_lock" /\ th[t].op = "Stop"
               /\ th'[t] # th[t]
               /\ stopping[th[t].a] )
             => ( /\ th'[t].pc = "idle" /\ th'[t].res = "nil"
                  /\ actorVars' = actorVars /\ delivered' = delivered )
       /\ \A a \in ActorIds :
             mbClosed'[a] # mbClosed[a] => (~stopping[a] /\ stopping'[a])]_vars

\* Two calls of Stop on the started actor have returned nil, the mailbox is
\* closed and the messages accepted before were delivered.
C14_Witness ==
    /\ \A t \in Clients :
          th[t].pc = "idle" /\ th[t].op = "Stop" /\ th[t].res = "nil"
    /\ started["a"] /\ stopping["a"] /\ mbClosed["a"]
    /\ Len(accepted["a"]) >= 1 /\ delivered["a"] = accepted["a"]

\* C15: no actor has more than one processing task at a time, and a Start
\* that finds the actor started and not stopping returns nil in that step
\* without spawning a task.
C15_OneTask ==
    /\ [](\A a \in ActorIds : wg[a] <= 1)
    /\ [][\A t \in Clients :
             ( /\ th[t].pc = "Start_lock" /\ th'[t] # th[t]
               /\ started[th[t].a] /\ ~stopping[th[t].a] )
             => ( /\ th'[t].pc = "idle" /\ th'[t].res = "nil"
                  /\ wg' = wg /\ th'[th[t].a] = th[th[t].a] )]_vars

\* Both clients' Start calls have returned nil and one task is running.
C15_Witness ==
    /\ \A t \in Clients :
          th[t].pc = "idle" /\ th[t].op = "Start" /\ th[t].res = "nil"
    /\ wg["a"] = 1 /\ th["a"].pc = "loop"

\* C16: BaseActor has no setting that makes Send non-blocking, so no Send
\* returns ErrMailboxFull: on a full mailbox of a started actor it waits.
C16_SendWaits ==
    \A t \in Clients :
        ~(th[t].pc = "idle" /\ th[t].op = "Send"
            /\ th[t].res = "ErrMailboxFull")

\* C32: no interleaving of Send or SendNonBlocking with a call of Stop makes
\* a send on the closed mailbox: a send that races with Stop enqueues its
\* message or returns ErrActorClosed or ErrMailboxFull, and never faults.
C32_SendNeverFaults ==
    /\ ~panicked
    /\ \A t \in Threads :
         th[t].op \in {"Send", "SendNonBlocking"} => th[t].pc # "panic"

\* ----------------------------------------------------- claims, SpecBuffer

\* C5: every value Get returns equals the whole contents the active slot had
\* at one moment between the call's entry and its return (the state before
\* or after a Swap), never a mixture of elements of two writes.
C5_NoTornRead ==
    \A r \in Readers :
        (dbt[r].pc = "idle" /\ dbt[r].out # <<>>)
        => \E k \in dbt[r].from .. dbt[r].to : published[k] = dbt[r].out

\* A Get has returned the snapshot of the second swap while the writer is in
\* the middle of the third, one element written.
C5_Witness ==
    \E r \in Readers :
        /\ dbt[r].pc = "idle" /\ dbt[r].from = 3
        /\ dbt[r].out = published[3]
        /\ dbt[Writer].pc = "write" /\ dbt[Writer].i = 2

\* ---------------------------------------------------- claims, SpecPipeline

\* An invocation of the audio callback is in progress.
CallbackActive ==
    th[Driver].op = "processInputStream" /\ th[Driver].pc # "idle"

\* C1: every invocation of processInputStream returns, whatever the actors'
\* tasks do and even if none of them ever takes a step again: only the
\* callback's own steps are assumed to be scheduled.
C1_CallbackReturns == CallbackActive ~> ~CallbackActive

\* The callback has returned after ErrMailboxFull: the processor's mailbox is
\* full and its task has not taken a single message.
C1_Witness ==
    /\ th[Driver].pc = "idle" /\ th[Driver].op = "processInputStream"
    /\ th[Driver].res = "ErrMailboxFull"
    /\ Len(mailbox["processor"]) = cap("processor")
    /\ delivered["processor"] = <<>>

\* C2: outside an invocation of the callback, every RawFrame the callback
\* acquired was either accepted by the processor's mailbox or released by the
\* callback, once; and with the processor stopped by Stop and its task ended,
\* the releases (the callback's and the processor's) equal the acquires.
C2_ReleaseOnFailure ==
    ~CallbackActive =>
        /\ rawAcquired = rawReleased[Driver] + Len(accepted["processor"])
        /\ (stopping["processor"] /\ th["processor"].pc = "done"
              /\ ~sysCancelled)
           => rawAcquired = rawReleased[Driver] + rawReleased["processor"]

\* Two callbacks have run against the stopped processor; both frames are back
\* in the pool.
C2_Witness ==
    /\ ~CallbackActive
    /\ stopping["processor"] /\ th["processor"].pc = "done"
    /\ th[Driver].res = "ErrActorClosed"
    /\ rawAcquired = 2 /\ rawReleased[Driver] = 2

\* C6: the ProcessedFrame the processor has built and the router's mailbox
\* has accepted carries, for its frame count k, the magnitudes and the
\* spectral flux that Process produced during callback k.
C6_OwnCopy ==
    (th["processor"].pc = "pm_sent" /\ th["processor"].res = "nil")
    => LET f == fftHeap[th["processor"].out]
       IN  /\ f.Magnitudes = fftOut[f.FrameCount].magnitudes
           /\ f.SpectralFlux = fftOut[f.FrameCount].spectralFlux

\* C8: the frame counts of the payloads the endpoint "ws" handed to its
\* sender are strictly increasing.
C8_FrameOrder ==
    \A i, j \in 1..Len(wsSent) :
        i < j => wsSent[i].FrameCount < wsSent[j].FrameCount

\* Both frames went through processor, router and endpoint, with mailboxes
\* that hold two messages.
C8_Witness ==
    /\ Len(wsSent) = 2
    /\ wsSent[1].FrameCount = 1 /\ wsSent[2].FrameCount = 2
    /\ reqCap["processor"] = 2

\* No message is queued, held or being processed anywhere in the pipeline.
Quiescent ==
    /\ th[Driver].pc = "idle"
    /\ \A a \in Components : th[a].pc \in {"loop", "done"} /\ mailbox[a] = <<>>

\* C17: once nothing is in flight any more, every ProcessedFrame the
\* processor took from the processed-frame pool is back in that pool.
C17_FramesReturned ==
    Quiescent => \A f \in 1..Len(fftHeap) : f \in fftPool

\* C18: every RawFrame the pool holds equals a freshly allocated one: the
\* sequences empty, the scalars zero.
C18_ReleaseResets ==
    \A r \in rawPool : rawHeap[r] = NewRawAudioMessage

\* ---------------------------------------------------- claims, SpecFrames

\* The FFTData records the processor emitted: those of the messages the
\* router's mailbox accepted.
Emitted ==
    {accepted["router"][i].id : i \in
        {j \in 1..Len(accepted["router"]) : accepted["router"][j].kind = "fft"}}

Held01(b) == IF b THEN 1 ELSE 0

\* The callback holds the raw record r: it took it from the pool and has
\* neither handed it to the processor's mailbox nor put it back.
HotPathHolds(r) ==
    /\ th[Driver].hold.kind = "raw" /\ th[Driver].hold.id = r
    /\ ~(th[Driver].pc = "cb_sent" /\ th[Driver].res = "nil")

\* The number of times the processor's mailbox holds the raw record r.
MailboxHolds(r) ==
    Cardinality({i \in 1..Len(mailbox["processor"]) :
                    /\ mailbox["processor"][i].kind = "raw"
                    /\ mailbox["processor"][i].id = r})

\* The processor task received the raw record r and has not put it back.
TaskHolds(r) ==
    th["processor"].hold.kind = "raw" /\ th["processor"].hold.id = r

\* C33: a RawFrame is held by at most one of the hot path, the processor's
\* mailbox, the processor task and the pool, so none is released while a
\* mailbox holds it or a task will read it, and none is released twice; a
\* ProcessedFrame the router's mailbox accepted is not in the pool, nor is
\* the one the processor is building.
C33_OneOwner ==
    /\ \A r \in 1..Len(rawHeap) :
         Held01(HotPathHolds(r)) + MailboxHolds(r) + Held01(TaskHolds(r))
             + Held01(r \in rawPool) <= 1
    /\ fftPool \cap Emitted = {}
    /\ th["processor"].out \notin fftPool

\* The one raw record went twice from the hot path through the mailbox and
\* the processor back to the pool and is held by the hot path for the third
\* frame; one ProcessedFrame was emitted and another was put back after a
\* failed send.
C33_Witness ==
    /\ Len(rawHeap) = 1
    /\ rawAcquired = 3
    /\ rawReleased["processor"] = 2
    /\ rawReleased[Driver] = 0
    /\ HotPathHolds(1)
    /\ Emitted # {}
    /\ fftPool # {}

\* The raw messages the processor task has received.
RawReceived ==
    Cardinality({i \in 1..Len(delivered["processor"]) :
                    delivered["processor"][i].kind = "raw"})

\* The step that ends processMessage releases the raw record, and the
\* ProcessedFrame iff the send returned an error; no other step of the
\* model releases a record on the processor's account.
ProcessorReleases ==
    IF th["processor"].pc = "pm_sent" /\ th'["processor"].pc # "pm_sent"
    THEN /\ rawReleased'["processor"] = rawReleased["processor"] + 1
         /\ th["processor"].hold.id \in rawPool'
         /\ th["processor"].hold.id \notin rawPool
         /\ th["processor"].out \in fftPool' <=> th["processor"].res # "nil"
         /\ fftPool' \ {th["processor"].out} = fftPool
    ELSE /\ rawReleased'["processor"] = rawReleased["processor"]
         /\ fftPool' \subseteq fftPool

\* C34: every RawFrame the processor receives is released to the raw pool
\* exactly once, whether the send to the router succeeds or not, and the
\* ProcessedFrame is released by the processor iff that send returned an
\* error.
C34_ReleasedOnce ==
    /\ [](RawReceived = rawReleased["processor"]
                            + Held01(th["processor"].hold.kind = "raw"))
    /\ [][ProcessorReleases]_vars

\* The processor handled two raw messages and released both: the frame of
\* one was emitted, the frame of the other was put back after a failed send.
C34_Witness ==
    /\ RawReceived = 2
    /\ rawReleased["processor"] = 2
    /\ th["processor"].hold = NoMsg
    /\ Emitted # {}
    /\ fftPool # {}

\* ---------------------------------------------------- claims, SpecRouter

\* A step of the router task that holds a frame: while targets remain it
\* enters the send to the next one, whatever the send before returned, and
\* after the last it takes up its loop again.
RouterForwards ==
    LET r == th["router"]
        q == th'["router"]
    IN  r.pc = "rt_next" /\ r.hold.kind = "fft" /\ q # r =>
            IF r.i <= Len(targetIDs)
            THEN /\ q.i = r.i + 1
                 /\ q.hold = r.hold
                 /\ \/ q.pc = "Send_check" /\ q.a = targetIDs[r.i]
                                           /\ q.m = r.hold
                    \/ targetIDs[r.i] \notin actors /\ q.res = "ErrNotFound"
            ELSE q.pc = "loop"

\* No step of the router task changes a pool.
RouterKeepsFrame ==
    th'["router"] # th["router"] => fftPool' = fftPool /\ rawPool' = rawPool

\* C35: when the router's send to one target fails it still attempts the
\* send to every remaining target, in the order of the targets, and it
\* releases the frame to no pool whether a send fails or not.
C35_RouterGoesOn == [][RouterForwards /\ RouterKeepsFrame]_vars

\* The frames a mailbox accepted.
AcceptedFrames(a) ==
    {accepted[a][i].id : i \in
        {j \in 1..Len(accepted[a]) : accepted[a][j].kind = "fft"}}

\* The router is done with a frame that its first target did not accept and
\* its second target did, and the frame is in no pool.
C35_Witness ==
    /\ th["router"].pc = "loop"
    /\ \E i \in 1..Len(delivered["router"]) :
         LET f == delivered["router"][i].id IN
         /\ f \notin AcceptedFrames(targetIDs[1])
         /\ f \in AcceptedFrames(targetIDs[2])
         /\ f \notin fftPool

\* ---------------------------------------------------- claims, SpecShutdown

Reverse(q) == [i \in 1..Len(q) |-> q[Len(q) + 1 - i]]

\* Every actor's task has ended, the stream is closed and the lifecycle is
\* Closed.
ShutdownComplete ==
    /\ engine.state = "Closed"
    /\ engine.stream = "closed"
    /\ \A a \in Components : th[a].pc = "done"

\* C19: once Shutdown has signalled cancellation, the system reaches a state
\* in which every actor's task has ended, the audio stream was stopped and
\* closed and the lifecycle is Closed.
C19_ShutdownCompletes ==
    (engine.state = "ShuttingDown" /\ engine.cancelled) ~> ShutdownComplete

\* C20: Close stops the stream before it closes it, starts StopAll only with
\* the stream closed, closes the resources only after every actor's Stop and
\* System.Close have returned, in reverse registration order, and terminates
\* the audio host only after the last resource was closed.
C20_CloseOrder ==
    /\ [](/\ sysCancelled => engine.stream = "closed"
          /\ actors = {} => (stopReturned = Components /\ th[Main].pc = "idle")
          /\ engine.closedLog # <<>> => actors = {}
          /\ IsPrefix(engine.closedLog, Reverse(Closables))
          /\ ~engine.initialized => engine.closedLog = Reverse(Closables))
    /\ [][/\ (engine'.stream = "stopped" /\ engine.stream # "stopped")
                => engine.stream = "active"
          /\ (engine'.stream = "closed" /\ engine.stream # "closed")
                => engine.stream = "stopped"]_vars

\* Close has run to its end after a frame went through the pipeline: the
\* stream is closed, every actor stopped, both resources closed, the
\* transport first, and the audio host terminated.
C20_Witness ==
    /\ engine.pc = "returned" /\ engine.state = "Closed"
    /\ engine.stream = "closed" /\ ~engine.initialized
    /\ engine.closedLog = <<"wsTransport", "fftProcessor">>
    /\ stopReturned = Components /\ actors = {}
    /\ Len(wsSent) >= 1

\* ------------------------------------------------------- claims, SpecClose

\* The calls of one whole Close of the running engine, in order: on the
\* stream, on the closables, on PortAudio.
CloseCalls ==
    <<"stream.Stop", "stream.Close">> \o Reverse(Closables) \o <<"Terminate">>

\* C21: whichever steps of Close fail, Close reaches its return having made
\* every call of its steps (stream Stop and Close, StopAll and a Stop of
\* every actor, System.Close, every closable, Terminate), and it returns a
\* FatalError if and only if one of these calls returned an error.
C21_CloseContinues ==
    /\ [](engine.pc = "Close.return" =>
             /\ engine.calls = CloseCalls
             /\ sysCancelled /\ stopReturned = Components /\ actors = {})
    /\ [][(engine.pc = "Close.return" /\ engine'.pc # "Close.return") =>
             (engine'.res = "FatalError" <=>
                 \E i \in 1..Len(engine.calls) :
                     engine.calls[i] \in engine.faults)]_vars

\* Close has returned a FatalError after its first call, stream.Stop, and no
\* other failed, with every later step made.
C21_Witness ==
    /\ engine.pc = "lm.state" /\ engine.res = "FatalError"
    /\ engine.faults = {"stream.Stop"}
    /\ engine.calls = CloseCalls
    /\ engine.closedLog = Reverse(Closables)
    /\ stopReturned = Components /\ actors = {}

\* --------------------------------------------------------- claims, SpecRun

\* C22: while the stream is open or a callback runs, every registered actor
\* is started and has its task; and once a Start has failed in Run's
\* StartAll, there is no stream and no callback has run or ever runs.
C22_StartBeforeStream ==
    /\ (engine.stream # "nil" \/ CallbackActive \/ frameCount > 0) =>
           \A a \in actors : started[a] /\ th[a].pc # "none"
    /\ th[Runner].failed # {} =>
           /\ engine.stream = "nil" /\ frameCount = 0 /\ ~CallbackActive
           /\ th[Runner].pc \in {"StartAll_loop", "Start_lock", "Start_spawn",
                                  "StartAll_ret", "Run_ret", "exited"}

\* A callback runs on the stream Run started after StartAll started the three
\* components.
C22_Witness ==
    /\ CallbackActive /\ engine.stream = "active"
    /\ th[Runner].pc = "ctx.Done" /\ th[Runner].copy = Components
    /\ \A a \in Components : started[a]

\* ------------------------------------------------------ claims, SpecSystem

\* C25: a Register of an id that is registered returns an error and leaves
\* the registry as it is, a Register of a free id stores the caller's actor;
\* an actor stays under its id until System.Close, whatever Register calls
\* run concurrently; the registry's keys are the registered ids.
C25_RegisterUnique ==
    /\ [](\A id \in ActorIds : id \in actors <=> registry.obj[id] # "none")
    /\ [][/\ \A t \in Clients :
                (th[t].op = "Register" /\ th[t].pc # "idle"
                   /\ th'[t].pc = "idle")
                => IF registry.obj[th[t].a] # "none"
                   THEN /\ th'[t].res = "ErrDuplicate"
                        /\ registry'.obj = registry.obj
                   ELSE /\ th'[t].res = "nil"
                        /\ registry'.obj =
                              [registry.obj EXCEPT ![th[t].a] = t]
          /\ \A id \in ActorIds :
                registry.obj[id] # "none"
                => \/ registry'.obj[id] = registry.obj[id]
                   \/ registry'.closes > registry.closes]_vars

\* Client c1 has registered its actor under "a" and c2's Register of an actor
\* with the same id was refused.
C25_Witness ==
    /\ registry.obj["a"] = "c1"
    /\ th["c2"].op = "Register" /\ th["c2"].a = "a"
    /\ th["c2"].pc = "idle" /\ th["c2"].res = "ErrDuplicate"

\* C26: once System.Close has run, a call of Send or SendNonBlocking returns
\* the not-found error at once and a Get reports the id absent, for every id,
\* and no mailbox changes by such a call.
C26_ClosedNotFound ==
    [][registry.closes > 0 =>
         /\ nextId' # nextId =>
               /\ mailbox' = mailbox /\ accepted' = accepted
               /\ \A t \in Clients :
                     th[t].pc = "idle" =>
                        /\ th'[t].pc = "idle"
                        /\ th'[t] # th[t] => th'[t].res = "ErrNotFound"
         /\ \A t \in Clients :
               (th[t].pc = "idle" /\ th'[t] # th[t] /\ th'[t].op = "Get")
               => th'[t].res = "absent" /\ mailbox' = mailbox]_vars

\* After a message of c1 was accepted by "a", the system was closed: c1's
\* next Send was refused as not found and c2's Get of "a" found nothing.
C26_Witness ==
    /\ registry.closes = 1
    /\ \E i \in 1..Len(accepted["a"]) : accepted["a"][i].from = "c1"
    /\ th["c1"].op = "Send" /\ th["c1"].pc = "idle"
    /\ th["c1"].res = "ErrNotFound"
    /\ th["c2"].op = "Get" /\ th["c2"].a = "a" /\ th["c2"].res = "absent"

\* --------------------------------------------------------- claims, SpecAll

\* C27: when StartAll or StopAll returns, it has called Start or Stop on
\* every actor of its copy of the registry, the errors map holds exactly the
\* actors whose call returned an error, and nil is returned exactly when
\* there was none.
C27_AllAttempted ==
    [][\A t \in Clients :
         /\ (th[t].pc = "StartAll_loop" /\ th'[t].pc = "StartAll_ret")
            => /\ th[t].todo = {}
               /\ \A a \in th[t].copy : a \in th[t].failed \/ started[a]
               /\ th'[t].errs = th[t].failed
               /\ th'[t].res = "nil" <=> th[t].failed = {}
         /\ (th[t].pc = "StopAll_loop" /\ th'[t].pc = "idle")
            => /\ th[t].todo = {}
               /\ th[t].copy \subseteq stopReturned
               /\ th'[t].errs = th[t].failed
               /\ th'[t].res = "nil" <=> th[t].failed = {}]_vars

\* A StartAll over the three components has returned the errors of some of
\* them, stopped by the other client in between, having started the others.
C27_Witness ==
    \E t \in Clients :
        /\ th[t].pc = "StartAll_ret" /\ th[t].copy = Components
        /\ th[t].res = "errors"
        /\ th[t].errs # {} /\ th[t].errs # Components
        /\ \A a \in Components \ th[t].errs : started[a]

\* -------------------------------------------- claims, SpecBuffer, SpecCopy

\* The elements of the slice reader r was given by Get, as they are now.
Held(r) == IF dbt[r].alias THEN db.buffers[dbt[r].src] ELSE dbt[r].cur

\* C23: a caller's modification of the sequence Get returned changes neither
\* slot, and a write of a later Swap changes no sequence that Get has
\* returned.
C23_Independent ==
    [][/\ \A r \in Readers :
            (dbt'[r].mod /\ ~dbt[r].mod) => db'.buffers = db.buffers
       /\ (dbt[Writer].pc = "write" /\ db'.buffers # db.buffers)
            => \A r \in Readers :
                  (dbt[r].pc = "idle" /\ dbt[r].out # <<>>)
                  => Held(r)' = Held(r)]_vars

\* What the update function of swap number n leaves in the slot.
Written(n) == [i \in 1..SlotLen |-> n]

\* C24: a Get that ran with no flip under way returns the first initial
\* value before the first Swap and afterwards what the update function of
\* the latest Swap left in its slot; the active index changes only in a
\* Swap whose update function has returned, to the other slot, and every
\* Swap changes it once.
C24_SwapGet ==
    /\ [](/\ db.active = (Len(published) - 1) % 2
          /\ \A r \in Readers :
                (dbt[r].pc = "idle" /\ dbt[r].out # <<>>
                   /\ dbt[r].from = dbt[r].to)
                => dbt[r].out = IF dbt[r].to = 1
                                THEN NewDoubleBuffer.buffers[0]
                                ELSE Written(dbt[r].to - 1))
    /\ [][/\ db'.active # db.active
                => /\ db'.active = 1 - db.active
                   /\ dbt[Writer].pc = "write" /\ dbt[Writer].i > SlotLen
                   /\ db.buffers[db'.active] = Written(Len(published))
          /\ (dbt[Writer].pc = "write" /\ dbt'[Writer].pc = "idle")
                => db'.active # db.active]_vars

\* After two Swaps slot 0 is active again and a Get that began after the
\* second has returned what its update function wrote.
C24_Witness ==
    \E r \in Readers :
        /\ dbt[r].pc = "idle" /\ dbt[r].from = 3 /\ dbt[r].to = 3
        /\ dbt[r].out = Written(2) /\ db.active = 0

\* --------------------------------------------------------- claims, SpecBpm

\* C28: a call of GetBPM that runs concurrently with calls of ProcessFlux
\* returns a pair (bpm, confidence) that one returned call of ProcessFlux
\* left in the two fields together, or the initial (0, 0); it never returns
\* the bpm of one update with the confidence of another.
C28_PairTogether ==
    \A r \in BpmReaders :
        detector.g[r].ret # <<>> =>
            detector.g[r].ret \in detector.pairs \cup {<<0, 0>>}

\* A call of GetBPM returned the pair of an update, a second update with
\* another bpm and another confidence is half done, and a goroutine is about
\* to call GetBPM.
C28_Witness ==
    /\ detector.pc = "confidence"
    /\ detector.calls >= 2
    /\ detector.currentBPM # detector.confidence
    /\ \E r \in BpmReaders :
         /\ detector.g[r].ret \in detector.pairs
         /\ detector.g[r].ret # <<0, 0>>
         /\ detector.g[r].ret[1] # detector.best.bpm
         /\ detector.g[r].ret[2] # detector.best.confidence
    /\ \E r \in BpmReaders : detector.g[r].pc = "idle"

\* -------------------------------------------------------- claims, SpecPow2

\* a >= b for two non-negative integers given by their one bits.
Geq(a, b) == a = b \/ (\E k \in a \ b : \A j \in b \ a : j < k)

\* out, of w bits, is the smallest power of two that is >= size, and 1 for
\* size <= 0.
SmallestPowerOfTwo(out, size, w) ==
    IF LeqZero(size, w) THEN out = {0}
    ELSE /\ Cardinality(out) = 1
         /\ ~LeqZero(out, w)
         /\ Geq(out, size)
         /\ \A k \in AllOnes(w) : k < Max(out) => ~Geq({k}, size)

\* C30: for every size of their integer type, NextPowerOfTwo,
\* NextPowerOfTwo32 and NextPowerOfTwo64 return the smallest power of two
\* that is >= size, and 1 for size <= 0, the shift being made in the width
\* of the type.
C30_SmallestPowerOfTwo ==
    pow2.done => SmallestPowerOfTwo(pow2.out, pow2.size, pow2.w)

\* size, of w bits, is a power of two.
PowerOfTwo(size, w) == Cardinality(size) = 1 /\ ~LeqZero(size, w)

\* C31: the three functions are idempotent: applied to its own result a
\* function returns that result, and a size that is a power of two is
\* returned as it is.
C31_Idempotent ==
    /\ pow2.redone => pow2.again = pow2.out
    /\ pow2.done /\ PowerOfTwo(pow2.size, pow2.w) => pow2.out = pow2.size

\* -------------------------------------------------------- claims, SpecSwap

\* The slot as its last Swap but one left it: the snapshot published two
\* swaps before the one that follows n published snapshots.
TwoSwapsAgo(n) ==
    IF n >= 2 THEN published[n - 1] ELSE NewDoubleBuffer.buffers[1]

\* C36: Swap leaves the active slot untouched and hands the update function
\* the slot as it was written two swaps earlier, so a Swap whose update
\* function writes only some elements publishes a snapshot whose other
\* elements are those of two swaps ago.
C36_TwoSwapsAgo ==
    /\ [](dbt[Writer].pc = "idle"
            => db.buffers[Inactive] = TwoSwapsAgo(Len(published)))
    /\ [][/\ db'.buffers[db.active] = db.buffers[db.active]
          /\ Len(published') > Len(published) =>
               \A j \in 1..SlotLen :
                   published'[Len(published')][j] =
                       IF j < dbt[Writer].from
                       THEN TwoSwapsAgo(Len(published))[j]
                       ELSE dbt[Writer].val]_vars

\* Two full Swaps and a third that wrote the second element only: the first
\* element of the published snapshot is that of the first Swap, not that of
\* the second, which was published last.
C36_Witness ==
    /\ Len(published) = 4
    /\ published[2] = Written(1)
    /\ published[3] = Written(2)
    /\ published[4][1] = 1
    /\ published[4][2] = 3
    /\ db.buffers[db.active] = published[4]

\* --------------------------------------------------- claims, SpecLifecycle

\* The place of a lifecycle state in the order of lifecycle.go:22-28.
LmRank(state) ==
    CASE state = "Initialized" -> 1
      [] state = "Running" -> 2
      [] state = "ShuttingDown" -> 3
      [] state = "Closed" -> 4

\* A step in which client t returns from a call of op.
Returns(t, op) == th'[t] # th[t] /\ th'[t].op = op

\* C37: the lifecycle state never moves backward along Initialized,
\* Running, ShuttingDown, Closed; a Start returns nil only when it found
\* the state Initialized, and only such a Start spawns run(), so that run()
\* is spawned at most once; a Shutdown that finds ShuttingDown or Closed
\* changes nothing of the manager and the engine, and the resources of the
\* engine are closed at most once.
C37_NeverBackward ==
    /\ [](engine.runs <= 1 /\ Len(engine.closedLog) <= Len(engine.closables))
    /\ [][/\ LmRank(engine'.state) >= LmRank(engine.state)
          /\ engine'.runs # engine.runs =>
                engine.state = "Initialized" /\ engine'.state = "Running"
          /\ \A t \in Clients :
                /\ Returns(t, "lm.Start") =>
                      (th'[t].res = "nil" <=> engine.state = "Initialized")
                /\ Returns(t, "Shutdown") =>
                      /\ engine.state \in {"ShuttingDown", "Closed"}
                      /\ engine' = engine
                      /\ UNCHANGED <<actors, registry, mailbox, mbClosed,
                                     started, stopping, wg, sysCancelled>>
         ]_vars

\* C37 witness: the manager is Closed after one run(); one client was
\* refused by Start, the other returned from a Shutdown that found the
\* shutdown under way or over, and every resource was closed once.
C37_Witness ==
    /\ engine.state = "Closed" /\ engine.runs = 1 /\ engine.done
    /\ th["c1"].op = "lm.Start" /\ th["c1"].res = "invalid state"
    /\ th["c2"].op = "Shutdown" /\ th["c2"].res = "returned"
    /\ Len(engine.closedLog) = Len(engine.closables)
    /\ Len(engine.closables) > 0

\* No element occurs twice in seq.
NoRepeat(seq) == \A i, j \in DOMAIN seq : i # j => seq[i] # seq[j]

\* What Close acts on: the stream, the actor system, the resources and
\* the audio host are as they were.
CloseActsNot ==
    /\ engine'.calls = engine.calls /\ engine'.closedLog = engine.closedLog
    /\ engine'.stream = engine.stream
    /\ engine'.initialized = engine.initialized
    /\ UNCHANGED <<actors, registry, mailbox, mbClosed, started, stopping,
                   wg, sysCancelled>>

\* C38: of all the calls of Engine.Close, by Shutdown and by the clients,
\* one after the other or at the same time, only the first goes through
\* Close: no call on the stream, no resource and not the audio host is
\* reached twice, such a call is made only inside Close, and a call of
\* Close that finds e.closed returns nil and leaves the stream, the actor
\* system, the resources and the audio host as they were.
C38_CloseOnce ==
    /\ [](NoRepeat(engine.calls) /\ NoRepeat(engine.closedLog))
    /\ [][/\ engine'.calls # engine.calls => engine.pc \in CloseBody
          /\ \A t \in Clients :
                (Returns(t, "Close") /\ engine.closed /\ engine.who # t) =>
                    th'[t].res = "nil" /\ engine' = engine /\ CloseActsNot
          /\ (engine.pc = "Close" /\ engine'.pc # "Close" /\ engine.closed) =>
                engine'.res = "nil" /\ engine'.pc = "lm.state"
                /\ CloseActsNot
         ]_vars

\* C38 witness: client c1 went through Close, whose Terminate failed; the
\* calls of c2 and of Shutdown came later and returned nil.
C38_Witness ==
    /\ engine.state = "Closed" /\ engine.closed
    /\ th["c1"].op = "Close" /\ th["c1"].res = "FatalError"
    /\ th["c2"].op = "Close" /\ th["c2"].res = "nil"
    /\ engine.res = "nil"
    /\ "Terminate" \in {engine.calls[i] : i \in DOMAIN engine.calls}

\* ------------------------------------------------------- claims, SpecTempo

\* C39: in every reachable state bd.currentBPM is 0, no estimate yet, or a
\* multiple of one half of a beat per minute from 60 to 200, whatever the
\* times of the onsets that ProcessFlux was given.
C39_HalfBeatInRange ==
    \/ detector.currentBPM = 0
    \/ /\ detector.currentBPM % 50 = 0
       /\ detector.currentBPM >= 6000
       /\ detector.currentBPM <= 20000

\* C39 witness: the estimate is 91.0, the half of the tempo 181.81... of the
\* bin of the intervals of a third of a second, 90.90... before it was
\* rounded, and it is the first of the scored candidates.
C39_Witness ==
    /\ detector.pc = "idle"
    /\ detector.currentBPM = 9100
    /\ Len(detector.scored) > 0
    /\ detector.scored[1].bpm = 9100

\* The key of an entry of the scored candidates, part_018:296.
KeyOf(entry) == RoundHalfBPM(entry.bpm)

\* C40: after a run of calculateBPM no two entries of bd.scoredCandidates
\* have the same key, the tempo rounded to one half; every entry is one of
\* the candidates that were scored, and for every candidate that was scored
\* the entry of its key has a score that is not lower.
C40_UniqueKeys ==
    LET scored == detector.scored
        appended == detector.appended
    IN  /\ \A i, j \in DOMAIN scored :
              i # j => KeyOf(scored[i]) # KeyOf(scored[j])
        /\ \A i \in DOMAIN scored :
              \E k \in DOMAIN appended : scored[i] = appended[k]
        /\ \A k \in DOMAIN appended :
              \E i \in DOMAIN scored :
                 /\ KeyOf(scored[i]) = KeyOf(appended[k])
                 /\ scored[i].score >= appended[k].score

\* C40 witness: a run has returned in which two of the scored candidates
\* had the same key, and two entries or more are left.
C40_Witness ==
    /\ detector.pc = "idle"
    /\ Len(detector.scored) >= 2
    /\ Len(detector.scored) < Len(detector.appended)
    /\ \E i, j \in DOMAIN detector.appended :
          i < j /\ KeyOf(detector.appended[i]) = KeyOf(detector.appended[j])

====
